---- MODULE Spec2Model ----
(***************************************************************************)
(* Cook-Torrance PBR lighting demo: the planar shadow matrix               *)
(* (js/renderer.js), the two fragment shaders and their light models       *)
(* (js/camera.js, GLSL ES 3.00) and the PCF shadow lookup.                 *)
(*                                                                         *)
(* JavaScript numbers of the shadow matrix are modelled by integers (the   *)
(* arithmetic of buildShadowMatrix is exact on them).  GLSL "highp float"  *)
(* values are modelled by binary floating-point numbers with MantBits bits *)
(* of mantissa, the float32 exponent range, round-to-nearest-even, and the *)
(* IEEE special values: +Inf, -Inf and NaN.                                *)
(***************************************************************************)
EXTENDS Integers, Sequences, FiniteSets, TLC

(***************************************************************************)
(* highp float                                                             *)
(***************************************************************************)
\* mantissa width of the modelled float format (float32 has 24)
MantBits == 11
\* largest and smallest binary exponent of a normal float32 number
ExpMax == 127
ExpMin == 126
\* exponent field marking the special values
ExpSpecial == 9999

\* A float is <<m, e>>: the number m * 2^e with m = 0 (and e = 0) or
\* 2^(MantBits-1) <= |m| < 2^MantBits; <<1, ExpSpecial>> is +Inf,
\* <<-1, ExpSpecial>> is -Inf and <<0, ExpSpecial>> is NaN.
NaN == <<0, ExpSpecial>>
PInf == <<1, ExpSpecial>>
NInf == <<-1, ExpSpecial>>
Zero == <<0, 0>>

IsNaN(x) == x = NaN
IsInf(x) == x = PInf \/ x = NInf
IsFinite(x) == x[2] # ExpSpecial
Sgn(n) == IF n < 0 THEN -1 ELSE IF n > 0 THEN 1 ELSE 0
Abs(n) == IF n < 0 THEN -n ELSE n

RECURSIVE BitLen(_), Pack(_, _, _)
BitLen(n) == IF n = 0 THEN 0 ELSE 1 + BitLen(n \div 2)

\* s * m * 2^e for a mantissa m of at most MantBits bits, or 2^MantBits
\* after a carry: overflow gives an infinity, underflow is flushed to zero
Pack(s, m, e) ==
    IF m = 2 ^ MantBits THEN Pack(s, 2 ^ (MantBits - 1), e + 1)
    ELSE IF e + MantBits - 1 > ExpMax THEN <<s, ExpSpecial>>
    ELSE IF e + MantBits - 1 < -ExpMin THEN Zero
    ELSE <<s * m, e>>

\* round to nearest, ties to even: quotient q, remainder r, half h of the
\* dropped bits
RoundQuotient(s, q, r, h, e) ==
    Pack(s, IF r > h \/ (r = h /\ q % 2 = 1) THEN q + 1 ELSE q, e)

\* mag has k bits more than the format holds
RoundShift(s, mag, e, k) ==
    IF k <= 0 THEN Pack(s, mag * (2 ^ (-k)), e + k)
    ELSE RoundQuotient(s, mag \div (2 ^ k), mag % (2 ^ k), 2 ^ (k - 1), e + k)

\* s * mag * 2^e rounded to the format (mag >= 0, s in {-1, 1})
Round(s, mag, e) ==
    IF mag = 0 THEN Zero ELSE RoundShift(s, mag, e, BitLen(mag) - MantBits)

\* the integer n * 2^e rounded to the format
RoundInt(n, e) == Round(IF n < 0 THEN -1 ELSE 1, Abs(n), e)

\* the float nearest to the integer n, and to the fraction n / d
FromInt(n) == RoundInt(n, 0)

FNeg(x) == IF IsNaN(x) THEN NaN ELSE <<-x[1], x[2]>>

FMul(x, y) ==
    IF IsNaN(x) \/ IsNaN(y) THEN NaN
    ELSE IF IsInf(x) \/ IsInf(y)
         THEN IF x = Zero \/ y = Zero THEN NaN
              ELSE <<Sgn(x[1]) * Sgn(y[1]), ExpSpecial>>
    ELSE IF x = Zero \/ y = Zero THEN Zero
    ELSE Round(Sgn(x[1]) * Sgn(y[1]), Abs(x[1]) * Abs(y[1]), x[2] + y[2])

\* the sum of two finite floats, with the mantissas aligned at exponent e
AddAligned(x, y, e) == RoundInt(x[1] * (2 ^ (x[2] - e)) + y[1] * (2 ^ (y[2] - e)), e)

FAdd(x, y) ==
    IF IsNaN(x) \/ IsNaN(y) THEN NaN
    ELSE IF IsInf(x) THEN (IF IsInf(y) /\ y # x THEN NaN ELSE x)
    ELSE IF IsInf(y) THEN y
    ELSE IF x = Zero THEN y
    ELSE IF y = Zero THEN x
    ELSE IF x[2] - y[2] > MantBits + 2 THEN x
    ELSE IF y[2] - x[2] > MantBits + 2 THEN y
    ELSE AddAligned(x, y, IF x[2] < y[2] THEN x[2] ELSE y[2])

FSub(x, y) == FAdd(x, FNeg(y))

\* num / den with the bits below the quotient kept as a sticky last bit
Sticky(num, den) ==
    (num \div den) + (IF num % den # 0 /\ (num \div den) % 2 = 0 THEN 1 ELSE 0)

FDiv(x, y) ==
    IF IsNaN(x) \/ IsNaN(y) THEN NaN
    ELSE IF IsInf(x) THEN (IF IsInf(y) THEN NaN
                           ELSE <<x[1] * (IF y[1] < 0 THEN -1 ELSE 1), ExpSpecial>>)
    ELSE IF IsInf(y) THEN Zero
    ELSE IF y = Zero THEN (IF x = Zero THEN NaN ELSE <<Sgn(x[1]), ExpSpecial>>)
    ELSE IF x = Zero THEN Zero
    ELSE Round(Sgn(x[1]) * Sgn(y[1]),
               Sticky(Abs(x[1]) * (2 ^ (MantBits + 2)), Abs(y[1])),
               x[2] - y[2] - (MantBits + 2))

FromRatio(n, d) == FDiv(FromInt(n), FromInt(d))

\* -1, 0 or 1 as x is below, equal to or above y (neither is NaN)
Cmp(x, y) ==
    IF x = y THEN 0
    ELSE IF IsInf(x) THEN x[1]
    ELSE IF IsInf(y) THEN -y[1]
    ELSE IF Sgn(x[1]) # Sgn(y[1]) THEN (IF Sgn(x[1]) < Sgn(y[1]) THEN -1 ELSE 1)
    ELSE IF x[2] # y[2] THEN (IF x[2] < y[2] THEN -Sgn(x[1]) ELSE Sgn(x[1]))
    ELSE IF x[1] < y[1] THEN -1 ELSE 1

\* the comparisons of IEEE: every comparison with a NaN is false
FLt(x, y) == ~IsNaN(x) /\ ~IsNaN(y) /\ Cmp(x, y) < 0
FGt(x, y) == FLt(y, x)
FLe(x, y) == ~IsNaN(x) /\ ~IsNaN(y) /\ Cmp(x, y) <= 0
FGe(x, y) == FLe(y, x)

RECURSIVE IsqrtFrom(_, _, _)
IsqrtFrom(n, r, bit) ==
    IF bit = 0 THEN r
    ELSE IF (r + bit) * (r + bit) <= n THEN IsqrtFrom(n, r + bit, bit \div 2)
    ELSE IsqrtFrom(n, r, bit \div 2)

\* floor of the square root of n, 0 <= n < 2^30
Isqrt(n) == IsqrtFrom(n, 0, 2 ^ 14)

\* the root r of n, with the bits below it kept as a sticky last bit
StickyRoot(n, r) == r + (IF r * r # n /\ r % 2 = 0 THEN 1 ELSE 0)

\* sqrt of a positive float whose mantissa is shifted by sh to an even exponent
SqrtShifted(x, sh) ==
    Round(1, StickyRoot(x[1] * (2 ^ sh), Isqrt(x[1] * (2 ^ sh))), (x[2] - sh) \div 2)

FSqrt(x) ==
    IF IsNaN(x) \/ x[1] < 0 THEN NaN
    ELSE IF x = PInf THEN PInf
    ELSE IF x = Zero THEN Zero
    ELSE SqrtShifted(x, MantBits + 2 + ((x[2] + MantBits) % 2))

(***************************************************************************)
(* GLSL built-in functions.  What GLSL ES 3.00 leaves undefined is a       *)
(* choice of the implementation, held in the variable glsl:                *)
(*   glsl.minmax  "glsl": min and max follow their definition by < (every  *)
(*                comparison with a NaN is false, so max(x, y) is x when   *)
(*                either is a NaN); "ieee": they return the operand that   *)
(*                is not a NaN                                             *)
(*   glsl.norm0   normalize of the zero vector: "nan" (0 * inversesqrt(0)) *)
(*                or "zero"                                                *)
(***************************************************************************)
VARIABLE glsl

\* the planar-shadow renderer (js/renderer.js) and its shadow vertex shader
VARIABLES
    debugShadow,       \* window.__debugShadow
    lightHomogeneous,  \* light 4-vector of the last buildShadowMatrix call
    planeEq,           \* plane of the last buildShadowMatrix call
    uShadowMat,        \* uniform uShadowMat of the shadow program
    matrixBuilt,       \* whether buildShadowMatrix has run
    shadowWarned,      \* whether the last buildShadowMatrix call logged the warning
    vertexIn,          \* uModel * vec4(aPos, 1.0) of the shadow vertex of this frame, or <<>>
    vertexOut          \* worldPos written by the vertex shader for it, or <<>>

smVars == <<debugShadow, lightHomogeneous, planeEq, uShadowMat, matrixBuilt,
            shadowWarned, vertexIn, vertexOut>>

\* the depth-map renderer and the shadow lookup of its fragment shader
VARIABLES
    shadowTexture,   \* depth texture of the shadow framebuffer
    shadowEnabled,   \* params.shadowEnabled
    pcfPass,         \* "idle" between frames, "main" while the main pass runs
    fragDone,        \* whether a fragment of the main pass was shaded
    fragClip,        \* <<x, y, z>> of vLightSpacePos of that fragment, in halves
    fragL,           \* its direction to the light
    fragEnabled,     \* uShadowEnabled of the pass that shaded it
    shadowFactor     \* what calculateShadow returned for it

pcfVars == <<shadowTexture, shadowEnabled, pcfPass, fragDone, fragClip, fragL,
             fragEnabled, shadowFactor>>

\* one evaluation of the Cook-Torrance BRDF by both fragment shaders
VARIABLES
    brdfDone,        \* whether a fragment was shaded in this frame
    brdfIn,          \* N, V, L, material and light intensity of that fragment
    brdfPlanar,      \* what evaluateBRDF of the planar-shadow shader returned
    brdfDepthMap,    \* the Lo term of the depth-map shader
    brdfTerms        \* the terms both shaders computed on the way

brdfVars == <<brdfDone, brdfIn, brdfPlanar, brdfDepthMap, brdfTerms>>

\* one evaluation of the light direction and attenuation by both shaders
VARIABLES
    lightDone,       \* whether a fragment was lit in this frame
    lightIn,         \* the light uniforms of the frame
    lightFrag,       \* world position of the fragment
    lightPlanar,     \* L, attenuation and cone factor of computeLighting
    lightDepthMap    \* L, attenuation and cone factor of calculateLight

lightVars == <<lightDone, lightIn, lightFrag, lightPlanar, lightDepthMap>>

\* one fragment lit by an area light, and by a point light in its place
VARIABLES
    areaDone,        \* whether a fragment was lit in this frame
    areaIn,          \* the uniforms of the frame
    areaFrag,        \* world position, N and V of the fragment
    areaPlanar,      \* result of computeLighting before the ambient term
    areaDepthMap     \* L and attenuation of calculateLight

areaVars == <<areaDone, areaIn, areaFrag, areaPlanar, areaDepthMap>>

\* the colour both fragment shaders give a fragment, before tone mapping
VARIABLES
    colorDone,       \* whether a fragment was shaded in this frame
    colorIn,         \* the uniforms of the frame
    colorFrag,       \* N, V, L and the light-space position of the fragment
    colorTexture,    \* depth texture of the shadow framebuffer
    colorPlanar,     \* main of the planar-shadow shader
    colorDepthMap    \* main of the depth-map shader

colorVars == <<colorDone, colorIn, colorFrag, colorTexture, colorPlanar, colorDepthMap>>

\* the planar-shadow application: the script js/main.js, the UI state and the
\* frames Renderer.render draws
VARIABLES
    appScript,          \* how far the top-level script of main.js has run
    windowDebugShadow,  \* window.__debugShadow as the application sets it
    frameRequested,     \* whether a requestAnimationFrame(render) callback is pending
    uiState,            \* UIManager.state, which getState hands out
    hoverInfo,          \* hoverInfo of main.js
    appFrame            \* what the last call of render drew

appVars == <<appScript, windowDebugShadow, frameRequested, uiState, hoverInfo, appFrame>>

\* the depth-map application (CookTorranceApp): its light, and the two
\* passes of a frame of animate
VARIABLES
    dmPc,            \* how far the current call of animate has run, "idle" between frames
    dmReady,         \* whether shadowProgram and shadowFramebuffer were created
    dmFramebuffer,   \* the framebuffer bound to gl.FRAMEBUFFER
    dmBase,          \* baseLightPosition
    dmRotationY,     \* rotationY
    dmRotationX,     \* rotationX
    dmAutoRotate,    \* params.autoRotate
    dmLightPosition, \* params.lightPosition
    dmShadow,        \* what the depth pass of the last frame uploaded and drew
    dmMain,          \* what the main pass of the last frame uploaded
    dmAccess         \* how the draw call in progress uses the depth texture

dmVars == <<dmPc, dmReady, dmFramebuffer, dmBase, dmRotationY, dmRotationX,
            dmAutoRotate, dmLightPosition, dmShadow, dmMain, dmAccess>>

\* start-up and frame loop of the two applications: the script js/main.js and
\* the constructor of CookTorranceApp, the WebGL objects they create and the
\* animation frame callbacks they leave pending
VARIABLES
    mjApp,      \* the planar-shadow application (js/main.js)
    ctApp,      \* the depth-map application (CookTorranceApp)
    lastBuild   \* the last call of a shader-program builder: the objects alive before and after

loopVars == <<mjApp, ctApp, lastBuild>>

\* the orbit camera of the planar-shadow application and its mouse handlers
VARIABLES
    camera,         \* the fields of the Camera object the handlers write
    cameraEvent,    \* the last event handled and the camera before it
    cameraEvents    \* events handled so far

cameraVars == <<camera, cameraEvent, cameraEvents>>

\* the controls of the depth-map application and the parameters it stores
VARIABLES
    uiParams,   \* UIController.params
    ctParams    \* CookTorranceApp.params, the fields onParamsChange guards

paramVars == <<uiParams, ctParams>>

\* mouse picking in the planar-shadow application: the object type, the
\* hover state and the tooltip
VARIABLES
    pickObjectType,     \* uiManager.state.objectType
    pickActiveObject,   \* activeObject of main.js
    pickHoverInfo,      \* hoverInfo of main.js: point and normal of the hit, or null
    pickTooltip,        \* tooltip.style.display
    pickLast,           \* the last mouse event handled on the canvas
    pickFrame           \* what the last frame drew

pickVars == <<pickObjectType, pickActiveObject, pickHoverInfo, pickTooltip, pickLast, pickFrame>>

\* the draw calls of a frame of the planar-shadow application, and the
\* shadow factor of a fragment of the depth-map application
VARIABLES
    rdPage,         \* the page that is open: of the planar-shadow or of the depth-map application
    rdState,        \* uiManager.state: shadowEnabled and lightType
    rdGl,           \* the capabilities BLEND and POLYGON_OFFSET_FILL of the context
    rdFrame,        \* the draw calls of the last call of Renderer.render
    rdShadowEnabled,    \* params.shadowEnabled of the depth-map application
    rdFragment      \* a fragment of its last frame: uShadowEnabled and the shadow factor

renderVars == <<rdPage, rdState, rdGl, rdFrame, rdShadowEnabled, rdFragment>>

\* the rotation of the object of the depth-map application
VARIABLES
    rotApp,     \* rotationX, rotationY, lastTime, params.autoRotate and the drag state
    rotLast,    \* the last callback or handler that ran and the application before it
    rotEvents   \* callbacks and handlers run so far

rotateVars == <<rotApp, rotLast, rotEvents>>

vars == <<glsl, smVars, pcfVars, brdfVars, lightVars, areaVars, colorVars, appVars, dmVars, loopVars, cameraVars, paramVars, pickVars, renderVars, rotateVars>>

Implementations == [minmax : {"glsl", "ieee"}, norm0 : {"nan", "zero"}]
\* an implementation for the computations in which nothing is undefined
AnyImplementation == [minmax |-> "glsl", norm0 |-> "nan"]

\* max(x, y): y if x < y, otherwise x
FMax(x, y) ==
    IF glsl.minmax = "ieee" /\ IsNaN(x) THEN y
    ELSE IF FLt(x, y) THEN y ELSE x

\* min(x, y): y if y < x, otherwise x
FMin(x, y) ==
    IF glsl.minmax = "ieee" /\ IsNaN(x) THEN y
    ELSE IF FLt(y, x) THEN y ELSE x

\* clamp(x, minVal, maxVal) = min(max(x, minVal), maxVal)
FClamp(x, lo, hi) == FMin(FMax(x, lo), hi)

One == FromInt(1)
Half == FromRatio(1, 2)

\* vec3 operations, componentwise
V3(x, y, z) == <<x, y, z>>
V3Add(u, v) == <<FAdd(u[1], v[1]), FAdd(u[2], v[2]), FAdd(u[3], v[3])>>
V3Sub(u, v) == <<FSub(u[1], v[1]), FSub(u[2], v[2]), FSub(u[3], v[3])>>
V3Mul(u, v) == <<FMul(u[1], v[1]), FMul(u[2], v[2]), FMul(u[3], v[3])>>
V3Scale(u, k) == <<FMul(u[1], k), FMul(u[2], k), FMul(u[3], k)>>
V3DivS(u, k) == <<FDiv(u[1], k), FDiv(u[2], k), FDiv(u[3], k)>>
V3Neg(u) == <<FNeg(u[1]), FNeg(u[2]), FNeg(u[3])>>
V3Splat(k) == <<k, k, k>>
FAbs(x) == IF IsFinite(x) THEN <<Abs(x[1]), x[2]>> ELSE x
V3Cross(u, v) ==
    <<FSub(FMul(u[2], v[3]), FMul(u[3], v[2])),
      FSub(FMul(u[3], v[1]), FMul(u[1], v[3])),
      FSub(FMul(u[1], v[2]), FMul(u[2], v[1]))>>
FDot3(u, v) == FAdd(FAdd(FMul(u[1], v[1]), FMul(u[2], v[2])), FMul(u[3], v[3]))
\* length(v) = sqrt(dot(v, v))
FLength(v) == FSqrt(FDot3(v, v))
\* normalize(v) = v / length(v); undefined for the zero vector
FNormalize(v) ==
    IF v = <<Zero, Zero, Zero>>
    THEN (IF glsl.norm0 = "zero" THEN v ELSE <<NaN, NaN, NaN>>)
    ELSE V3DivS(v, FLength(v))

\* floor(x) as an integer, for a finite x of moderate size
FloorDiv(n, d) == IF n >= 0 \/ n % d = 0 THEN n \div d ELSE -((-n) \div d) - 1
FloorInt(x) ==
    IF x[2] >= 0 THEN x[1] * (2 ^ x[2])
    ELSE IF -x[2] > 30 THEN (IF x[1] < 0 THEN -1 ELSE 0)
    ELSE FloorDiv(x[1], 2 ^ (-x[2]))

\* pow(x, 5.0); undefined for x < 0
FSquare(x) == FMul(x, x)
FPow5(x) ==
    IF IsNaN(x) \/ x[1] < 0 THEN NaN
    ELSE FMul(FSquare(FSquare(x)), x)

\* mix(x, y, a) = x * (1 - a) + y * a
FMix(x, y, a) == FAdd(FMul(x, FSub(One, a)), FMul(y, a))
V3Mix(u, v, a) == <<FMix(u[1], v[1], a), FMix(u[2], v[2], a), FMix(u[3], v[3], a)>>

\* smoothstep(edge0, edge1, x): t = clamp((x - edge0) / (edge1 - edge0), 0, 1),
\* t * t * (3 - 2 * t); undefined for edge0 >= edge1
Hermite(t) == FMul(FMul(t, t), FSub(FromInt(3), FMul(FromInt(2), t)))
FSmoothstep(edge0, edge1, x) ==
    Hermite(FClamp(FDiv(FSub(x, edge0), FSub(edge1, edge0)), Zero, One))

\* cos(x) for |x| <= 2, by its series 1 - x^2/2! + x^4/4! - x^6/6! + x^8/8!
\* 1 - (x2 / d) * rest: a step of the series in Horner form
CosStep(x2, d, rest) == FSub(One, FMul(FDiv(x2, FromInt(d)), rest))
CosSeries(x2) == CosStep(x2, 2, CosStep(x2, 12, CosStep(x2, 30, CosStep(x2, 56, One))))
FCos(x) == CosSeries(FMul(x, x))

(***************************************************************************)
(* Planar shadow matrix: Renderer.buildShadowMatrix and the shared vertex  *)
(* shader that applies it                                                  *)
(***************************************************************************)
\* largest absolute coordinate of the lights and vertices that are enumerated
MaxCoord == 2

Coord == -MaxCoord .. MaxCoord
Vec3Int == {<<x, y, z>> : x \in Coord, y \in Coord, z \in Coord}

\* the plane equations [a, b, c, d] that are enumerated: horizontal floors
\* (the default plane of the renderer, y = -0.74, scaled by 100), a wall
\* and a slanted plane
PlaneEqs == {<<0, 1, 0, 1>>, <<0, 100, 0, 74>>, <<1, 0, 0, -1>>, <<1, 1, 0, 0>>}

\* mat4.identity(), column-major
Identity4 == <<1, 0, 0, 0,  0, 1, 0, 0,  0, 0, 1, 0,  0, 0, 0, 1>>

Dot4(u, v) == u[1] * v[1] + u[2] * v[2] + u[3] * v[3] + u[4] * v[4]

\* the sixteen assignments m[0] .. m[15] of buildShadowMatrix
ShadowMatrixEntries(lx, ly, lz, lw, a, b, c, d, dot) ==
    << dot - lx * a, -ly * a,       -lz * a,       -lw * a,
       -lx * b,      dot - ly * b,  -lz * b,       -lw * b,
       -lx * c,      -ly * c,       dot - lz * c,  -lw * c,
       -lx * d,      -ly * d,       -lz * d,       dot - lw * d >>

\* const dot = a * lx + b * ly + c * lz + d * lw
PlaneDotLight(lightH, plane) ==
    plane[1] * lightH[1] + plane[2] * lightH[2] + plane[3] * lightH[3]
        + plane[4] * lightH[4]

\* mutant: the dot product is pushed away from zero in the degenerate case
buildShadowMatrixClamped(lightH, plane) ==
    LET dot == PlaneDotLight(lightH, plane)
    IN  ShadowMatrixEntries(lightH[1], lightH[2], lightH[3], lightH[4],
                            plane[1], plane[2], plane[3], plane[4],
                            IF dot = 0 THEN 1 ELSE dot)

\* mutant: the outer product is taken the other way round (P (x) L)
buildShadowMatrixTransposed(lightH, plane) ==
    LET dot == PlaneDotLight(lightH, plane)
    IN  ShadowMatrixEntries(plane[1], plane[2], plane[3], plane[4],
                            lightH[1], lightH[2], lightH[3], lightH[4], dot)

\* mutant: the last diagonal entry loses its outer-product term
buildShadowMatrixNoCorner(lightH, plane) ==
    LET dot == PlaneDotLight(lightH, plane)
    IN  [ShadowMatrixEntries(lightH[1], lightH[2], lightH[3], lightH[4],
                             plane[1], plane[2], plane[3], plane[4], dot)
            EXCEPT ![16] = dot]

buildShadowMatrix(lightH, plane) ==
    LET dot == PlaneDotLight(lightH, plane)
    IN  ShadowMatrixEntries(lightH[1], lightH[2], lightH[3], lightH[4],
                            plane[1], plane[2], plane[3], plane[4], dot)

\* the warning of buildShadowMatrix: window.__debugShadow && |dot| < 0.001
\* (on integers |dot| < 0.001 is dot = 0)
ShadowWarning(debug, lightH, plane) ==
    debug /\ PlaneDotLight(lightH, plane) = 0

\* GLSL mat4 * vec4 on a column-major matrix
MatVec4(m, x) ==
    [i \in 1..4 |-> m[i] * x[1] + m[4 + i] * x[2] + m[8 + i] * x[3] + m[12 + i] * x[4]]

\* mutant: the matrix is read row-major
VertexWorldPosRowMajor(aPos, useShadowMat, shadowMat) ==
    LET worldPos == <<aPos[1], aPos[2], aPos[3], 1>>
    IN  IF useShadowMat
        THEN [i \in 1..4 |-> shadowMat[4 * (i - 1) + 1] * worldPos[1]
                              + shadowMat[4 * (i - 1) + 2] * worldPos[2]
                              + shadowMat[4 * (i - 1) + 3] * worldPos[3]
                              + shadowMat[4 * (i - 1) + 4] * worldPos[4]]
        ELSE worldPos

\* vertexShader main: worldPos = uModel * vec4(aPos, 1.0) with the identity
\* model matrix of main.js, then the shadow projection if uUseShadowMat
VertexWorldPos(aPos, useShadowMat, shadowMat) ==
    LET worldPos == <<aPos[1], aPos[2], aPos[3], 1>>
    IN  IF useShadowMat THEN MatVec4(shadowMat, worldPos) ELSE worldPos

\* largest absolute coordinate of the vertices that are enumerated
MaxVertex == 1
VertexCoord == -MaxVertex .. MaxVertex
VertexPositions == {<<x, y, z>> : x \in VertexCoord, y \in VertexCoord, z \in VertexCoord}



\* the renderer before the first frame: the light of the initial UI state
\* (a point light at [2, 2, 2]), uShadowMat with the default of setUniforms;
\* main.js switches window.__debugShadow on
InitShadowMatrix ==
    /\ debugShadow = TRUE
    /\ lightHomogeneous = <<MaxCoord, MaxCoord, MaxCoord, 1>>
    /\ planeEq = <<0, 100, 0, 74>>
    /\ uShadowMat = Identity4
    /\ matrixBuilt = FALSE
    /\ shadowWarned = FALSE
    /\ vertexIn = <<>>
    /\ vertexOut = <<>>

\* the light 4-vectors and planes a frame can see after at most one control
\* was moved since the previous frame
NextInputs ==
    {<<lightHomogeneous, planeEq>>}
        \cup {<<[lightHomogeneous EXCEPT ![i] = v], planeEq>> : i \in 1..3, v \in Coord}
        \cup {<<[lightHomogeneous EXCEPT ![4] = w], planeEq>> : w \in {0, 1}}
        \cup {<<lightHomogeneous, p>> : p \in PlaneEqs}

\* the shadow pass of Renderer.render up to the upload of uShadowMat
BuildShadowMatrix ==
    \E in \in NextInputs :
        /\ lightHomogeneous' = in[1]
        /\ planeEq' = in[2]
        /\ uShadowMat' = buildShadowMatrix(in[1], in[2])
        /\ matrixBuilt' = TRUE
        /\ shadowWarned' = ShadowWarning(debugShadow, in[1], in[2])
        /\ vertexIn' = <<>>
        /\ vertexOut' = <<>>
        /\ UNCHANGED <<debugShadow, glsl, pcfVars, brdfVars, lightVars, areaVars, colorVars, appVars, dmVars, loopVars, cameraVars, paramVars, pickVars, renderVars, rotateVars>>

\* the vertex shader runs on a vertex of the shadow draw of the frame
ShadowVertex ==
    /\ matrixBuilt
    /\ vertexIn = <<>>
    /\ \E aPos \in VertexPositions :
        /\ vertexIn' = <<aPos[1], aPos[2], aPos[3], 1>>
        /\ vertexOut' = VertexWorldPos(aPos, TRUE, uShadowMat)
    /\ UNCHANGED <<debugShadow, lightHomogeneous, planeEq, uShadowMat,
                   matrixBuilt, shadowWarned>>
    /\ UNCHANGED <<glsl, pcfVars, brdfVars, lightVars, areaVars, colorVars, appVars, dmVars, loopVars, cameraVars, paramVars, pickVars, renderVars, rotateVars>>

(***************************************************************************)
(* Depth-map shadows: CookTorranceApp.renderShadowMap and calculateShadow  *)
(* of the depth-map fragment shader                                        *)
(***************************************************************************)
\* width and height of the depth texture in texels (2048 in the program)
ShadowMapSize == 3

Texels == {<<i, j>> : i \in 0 .. ShadowMapSize - 1, j \in 0 .. ShadowMapSize - 1}

\* params.shadowBias
ShadowBias == FromRatio(5, 1000)

\* depth an occluder leaves in the depth texture
OccluderDepth == Half

\* light-space clip coordinates of the fragments that are enumerated, in
\* halves (-3/2 .. 3/2; after the remap -2 is 0, 0 is 0.5 and 2 is 1)
ClipHalvesX == {-3, -2, 0, 1, 3}
ClipHalvesY == {-3, 0, 3}
ClipHalvesZ == {-3, 0, 1, 3}

\* directions to the light of the fragments that are enumerated (N is +Y)
ShadowNormal == <<Zero, One, Zero>>
ShadowLightDirs == {<<Zero, One, Zero>>, <<Zero, FromInt(-1), Zero>>}

\* texture(uShadowMap, uv).r with NEAREST filtering and CLAMP_TO_EDGE
TexelIndex(c) ==
    LET i == FloorInt(FMul(c, FromInt(ShadowMapSize)))
    IN  IF i < 0 THEN 0 ELSE IF i > ShadowMapSize - 1 THEN ShadowMapSize - 1 ELSE i

Texture(tex, u, v) == tex[<<TexelIndex(u), TexelIndex(v)>>]

\* projCoords = lightSpacePos.xyz / lightSpacePos.w; projCoords * 0.5 + 0.5
ProjCoords(lightSpacePos) ==
    LET ndc == V3DivS(<<lightSpacePos[1], lightSpacePos[2], lightSpacePos[3]>>,
                      lightSpacePos[4])
    IN  V3Add(V3Scale(ndc, Half), V3Splat(Half))

\* bias = max(uShadowBias * (1.0 - dot(N, L)), uShadowBias * 0.1)
SlopeBias(bias, N, L) ==
    FMax(FMul(bias, FSub(One, FDot3(N, L))), FMul(bias, FromRatio(1, 10)))

\* mutant: the comparison of a tap is reversed
PcfTapReversed(tex, projCoords, x, y, currentDepth, bias) ==
    LET texelSize == FDiv(One, FromInt(ShadowMapSize))
        pcfDepth == Texture(tex, FAdd(projCoords[1], FMul(FromInt(x), texelSize)),
                                 FAdd(projCoords[2], FMul(FromInt(y), texelSize)))
    IN  IF FGt(FSub(currentDepth, bias), pcfDepth) THEN One ELSE Zero

\* one tap of the kernel: currentDepth - bias > pcfDepth ? 0.0 : 1.0
PcfTap(tex, projCoords, x, y, currentDepth, bias) ==
    LET texelSize == FDiv(One, FromInt(ShadowMapSize))
        pcfDepth == Texture(tex, FAdd(projCoords[1], FMul(FromInt(x), texelSize)),
                                 FAdd(projCoords[2], FMul(FromInt(y), texelSize)))
    IN  IF FGt(FSub(currentDepth, bias), pcfDepth) THEN Zero ELSE One

\* the two nested loops, x outermost, run for the offsets number lo .. hi - 1
\* in order, the offset k being (x, y) with k = (x + 2) * 5 + (y + 2): shadow
\* after them, from shadow before them
RECURSIVE PcfLoop(_, _, _, _, _, _, _)
PcfLoop(lo, hi, shadow, tex, projCoords, currentDepth, bias) ==
    IF hi - lo = 1
    THEN FAdd(shadow, PcfTap(tex, projCoords, (lo \div 5) - 2, (lo % 5) - 2,
                             currentDepth, bias))
    ELSE CHOOSE out \in
            {IF IsNaN(first) THEN NaN  \* a NaN stays a NaN in every later sum
             ELSE PcfLoop((lo + hi) \div 2, hi, first, tex, projCoords, currentDepth,
                          bias) :
                first \in {PcfLoop(lo, (lo + hi) \div 2, shadow, tex, projCoords,
                                   currentDepth, bias)}} : TRUE

\* shadow / 25.0 after the loops, from projCoords and bias on
calculateShadow_pcf(tex, projCoords, bias) ==
    FDiv(PcfLoop(0, 25, Zero, tex, projCoords, projCoords[3], bias), FromInt(25))

\* the bounds tests and the loops, from projCoords on
calculateShadow_projCoords(bias, tex, projCoords, N, L) ==
    IF \/ FGt(projCoords[3], One)
       \/ FLt(projCoords[1], Zero) \/ FGt(projCoords[1], One)
       \/ FLt(projCoords[2], Zero) \/ FGt(projCoords[2], One)
    THEN One
    ELSE CHOOSE out \in {calculateShadow_pcf(tex, projCoords, b) :
                            b \in {SlopeBias(bias, N, L)}} : TRUE

\* mutant: the bounds test forgets the far plane (projCoords.z > 1.0)
calculateShadowNoFar(enabled, bias, tex, lightSpacePos, N, L) ==
    IF enabled = 0 THEN One
    ELSE CHOOSE out \in
            {IF \/ FLt(projCoords[1], Zero) \/ FGt(projCoords[1], One)
                \/ FLt(projCoords[2], Zero) \/ FGt(projCoords[2], One)
             THEN One
             ELSE calculateShadow_pcf(tex, projCoords, SlopeBias(bias, N, L)) :
                projCoords \in {ProjCoords(lightSpacePos)}} : TRUE

\* calculateShadow with the uniforms uShadowEnabled, uShadowBias, uShadowMap
calculateShadow(enabled, bias, tex, lightSpacePos, N, L) ==
    IF enabled = 0 THEN One
    ELSE CHOOSE out \in {calculateShadow_projCoords(bias, tex, projCoords, N, L) :
                            projCoords \in {ProjCoords(lightSpacePos)}} : TRUE

\* the depth texture after gl.clear(DEPTH_BUFFER_BIT) and the draw of an
\* object whose nearest surface has depth d over the texels lo .. hi
DepthAfterDraw(lo, hi, d) ==
    [t \in Texels |->
        IF lo[1] <= t[1] /\ t[1] <= hi[1] /\ lo[2] <= t[2] /\ t[2] <= hi[2]
        THEN d ELSE One]


\* the values of the fragment record while no fragment has been shaded
NoFragment ==
    /\ fragDone = FALSE
    /\ fragClip = <<0, 0, 0>>
    /\ fragL = <<Zero, One, Zero>>
    /\ fragEnabled = 1
    /\ shadowFactor = One


\* after initShadowMap (texImage2D with null data: all texels 0) and with
\* the initial params
InitPcf ==
    /\ shadowTexture = [t \in Texels |-> Zero]
    /\ shadowEnabled = TRUE
    /\ pcfPass = "idle"
    /\ NoFragment

\* the shadow checkbox, through onParamsChange
SetShadowEnabled ==
    /\ pcfPass = "idle"
    /\ shadowEnabled' = ~shadowEnabled
    /\ UNCHANGED <<shadowTexture, pcfPass, fragDone, fragClip, fragL, fragEnabled,
                   shadowFactor>>
    /\ UNCHANGED <<glsl, smVars, brdfVars, lightVars, areaVars, colorVars, appVars, dmVars, loopVars, cameraVars, paramVars, pickVars, renderVars, rotateVars>>

\* renderShadowMap of a frame: clear, then draw the object (or nothing of
\* it, when it lies outside the light frustum); render follows
RenderShadowMap ==
    /\ pcfPass = "idle"
    /\ \/ shadowTexture' = [t \in Texels |-> One]
       \/ \E lo \in Texels, hi \in Texels :
            /\ lo[1] <= hi[1] /\ lo[2] <= hi[2]
            /\ shadowTexture' = DepthAfterDraw(lo, hi, OccluderDepth)
    /\ pcfPass' = "main"
    /\ UNCHANGED <<shadowEnabled, fragDone, fragClip, fragL, fragEnabled, shadowFactor>>
    /\ UNCHANGED <<glsl, smVars, brdfVars, lightVars, areaVars, colorVars, appVars, dmVars, loopVars, cameraVars, paramVars, pickVars, renderVars, rotateVars>>

\* the fragment shader of the main pass computes the shadow factor of a
\* fragment (step 8 of main)
ShadeShadow ==
    /\ pcfPass = "main"
    /\ ~fragDone
    /\ \E x \in ClipHalvesX, y \in ClipHalvesY, z \in ClipHalvesZ, L \in ShadowLightDirs :
        LET lightSpacePos == <<FromRatio(x, 2), FromRatio(y, 2), FromRatio(z, 2), One>>
            enabled == IF shadowEnabled THEN 1 ELSE 0
        IN  /\ fragClip' = <<x, y, z>>
            /\ fragL' = L
            /\ fragEnabled' = enabled
            /\ shadowFactor' = calculateShadow(enabled, ShadowBias, shadowTexture,
                                               lightSpacePos, ShadowNormal, L)
    /\ fragDone' = TRUE
    /\ UNCHANGED <<shadowTexture, shadowEnabled, pcfPass>>
    /\ UNCHANGED <<glsl, smVars, brdfVars, lightVars, areaVars, colorVars, appVars, dmVars, loopVars, cameraVars, paramVars, pickVars, renderVars, rotateVars>>

\* render returns: the frame is over and nothing of its fragments is kept
EndFrame ==
    /\ pcfPass = "main"
    /\ pcfPass' = "idle"
    /\ fragDone' = FALSE
    /\ fragClip' = <<0, 0, 0>>
    /\ fragL' = <<Zero, One, Zero>>
    /\ fragEnabled' = 1
    /\ shadowFactor' = One
    /\ UNCHANGED <<shadowTexture, shadowEnabled>>
    /\ UNCHANGED <<glsl, smVars, brdfVars, lightVars, areaVars, colorVars, appVars, dmVars, loopVars, cameraVars, paramVars, pickVars, renderVars, rotateVars>>

\* light-space coordinate of the shaded fragment after the perspective
\* divide and the remap to [0,1], times 4: (x/2) * 0.5 + 0.5 = (x + 2) / 4
Proj4(i) == fragClip[i] + 2
OutOfBounds ==
    \/ Proj4(1) < 0 \/ Proj4(1) > 4
    \/ Proj4(2) < 0 \/ Proj4(2) > 4
    \/ Proj4(3) > 4

\* C5: with shadows enabled, a fragment whose light-space coordinate has x
\* or y outside [0,1] or z > 1 gets the shadow factor 1.0, whatever the
\* depth texture, N, L and the bias are.
C5_OutOfBoundsLit ==
    (fragDone /\ fragEnabled = 1 /\ OutOfBounds) => shadowFactor = One

\* an out-of-bounds fragment was shaded with shadows enabled over a depth
\* texture that has an occluder at every texel
C5_Witness ==
    /\ fragDone /\ fragEnabled = 1 /\ OutOfBounds
    /\ \A t \in Texels : shadowTexture[t] = OccluderDepth
    /\ fragClip[3] = 3

KernelOffsets == {<<x, y>> : x \in -2 .. 2, y \in -2 .. 2}
FragProj == <<FromRatio(Proj4(1), 4), FromRatio(Proj4(2), 4), FromRatio(Proj4(3), 4)>>
\* depth stored at the texel that the tap with offset o reads
TapDepth(o) ==
    Texture(shadowTexture,
            FAdd(FragProj[1], FMul(FromInt(o[1]), FDiv(One, FromInt(ShadowMapSize)))),
            FAdd(FragProj[2], FMul(FromInt(o[2]), FDiv(One, FromInt(ShadowMapSize)))))
\* the taps whose stored depth is not less than currentDepth - bias
LitTaps ==
    {o \in KernelOffsets :
        FGe(TapDepth(o), FSub(FragProj[3], SlopeBias(ShadowBias, ShadowNormal, fragL)))}

\* C6: for an in-bounds fragment with shadows enabled the factor is k/25,
\* k the number of the 25 taps that are not occluded; it lies in [0,1], is
\* 1 when no tap is occluded and below 1 when the centre tap is occluded.
C6_PcfAverage ==
    (fragDone /\ fragEnabled = 1 /\ ~OutOfBounds) =>
        /\ shadowFactor = FDiv(FromInt(Cardinality(LitTaps)), FromInt(25))
        /\ FGe(shadowFactor, Zero) /\ FLe(shadowFactor, One)
        /\ (LitTaps = KernelOffsets => shadowFactor = One)
        /\ (<<0, 0>> \notin LitTaps => FLt(shadowFactor, One))

\* an in-bounds fragment behind an occluder that covers only part of the
\* kernel was shaded: some taps are occluded, the centre one among them,
\* and some are not
C6_Witness ==
    /\ fragDone /\ fragEnabled = 1 /\ ~OutOfBounds
    /\ <<0, 0>> \notin LitTaps
    /\ LitTaps # {}
    /\ FGt(shadowFactor, Zero) /\ FLt(shadowFactor, One)

(***************************************************************************)
(* Specification of the planar shadow pass                                 *)
(***************************************************************************)
Delta(i, j) == IF i = j THEN 1 ELSE 0
MatrixBuilt == matrixBuilt
VertexDone == vertexIn # <<>>
BuiltDot == Dot4(planeEq, lightHomogeneous)

OnAxis ==
    /\ lightHomogeneous[4] = 1
    /\ lightHomogeneous[1] * planeEq[2] = lightHomogeneous[2] * planeEq[1]
    /\ lightHomogeneous[1] * planeEq[3] = lightHomogeneous[3] * planeEq[1]
    /\ lightHomogeneous[2] * planeEq[3] = lightHomogeneous[3] * planeEq[2]

Pi == FromRatio(314159265, 100000000)
Eps3 == FromRatio(1, 1000)
Eps4 == FromRatio(1, 10000)
DielectricF0 == FromRatio(4, 100)

D_GGX(NdotH, alpha) ==
    LET a2 == FMul(alpha, alpha)
        d0 == FAdd(FMul(FMul(NdotH, NdotH), FSub(a2, One)), One)
        denom == FMul(FMul(Pi, d0), d0)
    IN  FDiv(a2, FMax(Eps4, denom))

G_SchlickGGX(NdotV, k) == FDiv(NdotV, FAdd(FMul(NdotV, FSub(One, k)), k))

\* k of G_Smith
G_Smith_k(roughness) == FDiv(FSquare(FAdd(roughness, One)), FromInt(8))

G_Smith(NdotV, NdotL, roughness) ==
    FMul(G_SchlickGGX(NdotV, G_Smith_k(roughness)),
         G_SchlickGGX(NdotL, G_Smith_k(roughness)))

fresnelSchlick(cosTheta, F0) ==
    V3Add(F0, V3Scale(V3Sub(V3Splat(One), F0), FPow5(FSub(One, cosTheta))))

\* alpha, F0 and kD of evaluateBRDF
evaluateBRDF_alpha(u) == FMax(Eps3, FMul(u.roughness, u.roughness))
evaluateBRDF_F0(u) == V3Mix(V3Splat(DielectricF0), u.albedo, u.metallic)
\* kD with the metallic weight the wrong way round
evaluateBRDF_kDSlip(u, kS) == V3Scale(V3Sub(V3Splat(One), kS), u.metallic)
evaluateBRDF_kD(u, kS) == V3Scale(V3Sub(V3Splat(One), kS), FSub(One, u.metallic))

\* evaluateBRDF, its statements in order, each on the values of the ones
\* before: from specular and diffuse on, from D, G and F on, from the
\* clamped dot products on, from H on
evaluateBRDF_return(diffuse, specular, radiance, NdotL) ==
    V3Scale(V3Mul(V3Add(diffuse, specular), radiance), NdotL)

evaluateBRDF_specular(u, NdotL, NdotV, D, G, F, radiance) ==
    CHOOSE out \in {evaluateBRDF_return(diffuse, specular, radiance, NdotL) :
                        specular \in {V3DivS(V3Scale(F, FMul(D, G)),
                                             FMax(Eps3, FMul(FMul(FromInt(4), NdotV),
                                                             NdotL)))},
                        diffuse \in {V3DivS(V3Mul(evaluateBRDF_kD(u, F), u.albedo),
                                            Pi)}} : TRUE

evaluateBRDF_terms(u, NdotL, NdotV, NdotH, VdotH, alpha, radiance) ==
    CHOOSE out \in {evaluateBRDF_specular(u, NdotL, NdotV, D, G, F, radiance) :
                        D \in {D_GGX(NdotH, alpha)},
                        G \in {G_Smith(NdotV, NdotL, alpha)},
                        F \in {fresnelSchlick(VdotH, evaluateBRDF_F0(u))}} : TRUE

evaluateBRDF_dots(u, N, V, L, H, radiance) ==
    CHOOSE out \in {evaluateBRDF_terms(u, NdotL, NdotV, NdotH, VdotH, alpha, radiance) :
                        NdotL \in {FClamp(FDot3(N, L), Zero, One)},
                        NdotV \in {FClamp(FDot3(N, V), Zero, One)},
                        NdotH \in {FClamp(FDot3(N, H), Zero, One)},
                        VdotH \in {FClamp(FDot3(V, H), Zero, One)},
                        alpha \in {evaluateBRDF_alpha(u)}} : TRUE

evaluateBRDF(u, N, V, L, radiance) ==
    CHOOSE out \in {evaluateBRDF_dots(u, N, V, L, H, radiance) :
                        H \in {FNormalize(V3Add(V, L))}} : TRUE

\* the terms evaluateBRDF computes on the way: the alpha it hands to D_GGX,
\* the k and the value of G_Smith, V.H, kS and kD
evaluateBRDFTerms(u, N, V, L) ==
    LET H == FNormalize(V3Add(V, L))
        NdotL == FClamp(FDot3(N, L), Zero, One)
        NdotV == FClamp(FDot3(N, V), Zero, One)
        VdotH == FClamp(FDot3(V, H), Zero, One)
        F == fresnelSchlick(VdotH, evaluateBRDF_F0(u))
    IN  [alpha |-> evaluateBRDF_alpha(u),
         k |-> G_Smith_k(evaluateBRDF_alpha(u)),
         G |-> G_Smith(NdotV, NdotL, evaluateBRDF_alpha(u)),
         VdotH |-> VdotH, kS |-> F, kD |-> evaluateBRDF_kD(u, F)]

(***************************************************************************)
(* Cook-Torrance BRDF of the depth-map fragment shader                     *)
(***************************************************************************)
\* fresnelSchlick of the depth-map shader
fresnelSchlickClamped(cosTheta, F0) ==
    V3Add(F0, V3Scale(V3Sub(V3Splat(One), F0),
                      FPow5(FClamp(FSub(One, cosTheta), Zero, One))))

\* a of distributionGGX
distributionGGX_a(roughness) == FMul(roughness, roughness)

distributionGGX(N, H, roughness) ==
    LET a == distributionGGX_a(roughness)
        a2 == FMul(a, a)
        NdotH == FMax(FDot3(N, H), Zero)
        NdotH2 == FMul(NdotH, NdotH)
        d0 == FAdd(FMul(NdotH2, FSub(a2, One)), One)
        denom == FMul(FMul(Pi, d0), d0)
    IN  FDiv(a2, FMax(denom, Eps4))

\* k of geometrySchlickGGX
geometrySchlickGGX_k(roughness) == FDiv(FSquare(FAdd(roughness, One)), FromInt(8))

geometrySchlickGGX(NdotV, roughness) ==
    FDiv(NdotV, FAdd(FMul(NdotV, FSub(One, geometrySchlickGGX_k(roughness))),
                     geometrySchlickGGX_k(roughness)))

geometrySmith(N, V, L, roughness) ==
    LET NdotV == FMax(FDot3(N, V), Zero)
        NdotL == FMax(FDot3(N, L), Zero)
    IN  FMul(geometrySchlickGGX(NdotV, roughness), geometrySchlickGGX(NdotL, roughness))

\* Lo of main (steps 1 to 9) for a fragment with the vectors N, V, L, the
\* attenuation of calculateLight and the factor of calculateShadow
\* kD of main
main_kD(u, kS) == V3Scale(V3Sub(V3Splat(One), kS), FSub(One, u.metallic))

\* the statements of main in order, each on the values of the ones before:
\* from specular and diffuse on, from D, G and F on, from H and radiance on
CookTorranceLo_Lo(diffuse, specular, radiance, NdotL, shadow) ==
    V3Scale(V3Scale(V3Mul(V3Add(diffuse, specular), radiance), NdotL), shadow)

CookTorranceLo_specular(u, N, V, L, D, G, F, radiance, shadow) ==
    CHOOSE out \in {CookTorranceLo_Lo(diffuse, specular, radiance, NdotL, shadow) :
                        NdotL \in {FMax(FDot3(N, L), Zero)},
                        specular \in {V3DivS(V3Scale(F, FMul(D, G)),
                                             FAdd(FMul(FMul(FromInt(4),
                                                            FMax(FDot3(N, V), Zero)),
                                                       FMax(FDot3(N, L), Zero)),
                                                  Eps4))},
                        diffuse \in {V3DivS(V3Mul(main_kD(u, F), u.albedo), Pi)}} : TRUE

CookTorranceLo_terms(u, N, V, L, H, radiance, shadow) ==
    CHOOSE out \in {CookTorranceLo_specular(u, N, V, L, D, G, F, radiance, shadow) :
                        D \in {distributionGGX(N, H, u.roughness)},
                        G \in {geometrySmith(N, V, L, u.roughness)},
                        F \in {fresnelSchlickClamped(
                                   FMax(FDot3(H, V), Zero),
                                   V3Mix(V3Splat(DielectricF0), u.albedo,
                                         u.metallic))}} : TRUE

CookTorranceLo(u, N, V, L, attenuation, shadow) ==
    CHOOSE out \in {CookTorranceLo_terms(u, N, V, L, H, radiance, shadow) :
                        H \in {FNormalize(V3Add(V, L))},
                        radiance \in {V3Scale(V3Scale(u.lightColor, u.lightIntensity),
                                              attenuation)}} : TRUE

\* the terms main computes on the way to Lo: the a of distributionGGX, the
\* k of geometrySchlickGGX, the value of geometrySmith, V.H, kS and kD
CookTorranceTerms(u, N, V, L) ==
    LET H == FNormalize(V3Add(V, L))
        VdotH == FMax(FDot3(H, V), Zero)
        F == fresnelSchlickClamped(VdotH,
                                   V3Mix(V3Splat(DielectricF0), u.albedo, u.metallic))
    IN  [alpha |-> distributionGGX_a(u.roughness),
         k |-> geometrySchlickGGX_k(u.roughness),
         G |-> geometrySmith(N, V, L, u.roughness),
         VdotH |-> VdotH, kS |-> F, kD |-> main_kD(u, F)]

(***************************************************************************)
(* Fragments shaded by the two BRDF implementations                        *)
(***************************************************************************)
MaterialSteps == 2
\* the positions of the roughness and metallic sliders, in [0,1]
MaterialLevels == {FromRatio(k, MaterialSteps) : k \in 0..MaterialSteps}
Albedos ==
    {<<One, Half, Zero>>, <<One, One, One>>, <<Zero, Zero, Zero>>}
LightIntensities == {FromInt(1), FromInt(3)}
LightColor == <<One, One, One>>

\* unit vectors, in fifths
Fifths(v) == <<FromRatio(v[1], 5), FromRatio(v[2], 5), FromRatio(v[3], 5)>>
BrdfNormals == {Fifths(<<0, 5, 0>>), Fifths(<<0, 3, 4>>)}
BrdfViews == {Fifths(<<0, 5, 0>>), Fifths(<<5, 0, 0>>), Fifths(<<3, 4, 0>>)}
BrdfLights ==
    {Fifths(v) : v \in {<<0, 5, 0>>, <<0, -5, 0>>, <<-5, 0, 0>>, <<3, 4, 0>>,
                        <<-3, -4, 0>>, <<0, 4, -3>>, <<0, 0, 5>>}}

\* the material and light of the initial UI state, before any fragment
NoBrdfInput ==
    [N |-> Fifths(<<0, 5, 0>>), V |-> Fifths(<<0, 5, 0>>), L |-> Fifths(<<0, 5, 0>>),
     albedo |-> <<One, FromRatio(42, 100), FromRatio(42, 100)>>, metallic |-> Half,
     roughness |-> FromRatio(3, 10), lightColor |-> LightColor,
     lightIntensity |-> FromInt(3)]

NoBrdfTerms ==
    [planar |-> [alpha |-> Zero, k |-> Zero, G |-> Zero, VdotH |-> Zero,
                 kS |-> <<Zero, Zero, Zero>>, kD |-> <<Zero, Zero, Zero>>],
     depthMap |-> [alpha |-> Zero, k |-> Zero, G |-> Zero, VdotH |-> Zero,
                   kS |-> <<Zero, Zero, Zero>>, kD |-> <<Zero, Zero, Zero>>]]

InitBrdf ==
    /\ brdfDone = FALSE
    /\ brdfIn = NoBrdfInput
    /\ brdfPlanar = <<Zero, Zero, Zero>>
    /\ brdfDepthMap = <<Zero, Zero, Zero>>
    /\ brdfTerms = NoBrdfTerms

\* both fragment shaders shade a fragment with the same vectors and
\* uniforms: a directional light (attenuation 1.0), shadows switched off
ShadeBrdf ==
    /\ ~brdfDone
    /\ \E N \in BrdfNormals, V \in BrdfViews, L \in BrdfLights, albedo \in Albedos,
          metallic \in MaterialLevels, roughness \in MaterialLevels,
          lightIntensity \in LightIntensities :
        LET u == [N |-> N, V |-> V, L |-> L, albedo |-> albedo, metallic |-> metallic,
                  roughness |-> roughness, lightColor |-> LightColor,
                  lightIntensity |-> lightIntensity]
        IN  /\ brdfIn' = u
            /\ brdfPlanar' = evaluateBRDF(u, N, V, L, V3Scale(LightColor, lightIntensity))
            /\ brdfDepthMap' =
                 CookTorranceLo(u, N, V, L, One,
                                calculateShadow(0, ShadowBias, shadowTexture,
                                                <<Zero, Zero, Zero, One>>, N, L))
            /\ brdfTerms' = [planar |-> evaluateBRDFTerms(u, N, V, L),
                             depthMap |-> CookTorranceTerms(u, N, V, L)]
    /\ brdfDone' = TRUE
    /\ UNCHANGED <<glsl, smVars, pcfVars, lightVars, areaVars, colorVars, appVars, dmVars, loopVars, cameraVars, paramVars, pickVars, renderVars, rotateVars>>

\* the frame is over and nothing of its fragments is kept
EndBrdfFrame ==
    /\ brdfDone
    /\ brdfDone' = FALSE
    /\ brdfIn' = NoBrdfInput
    /\ brdfPlanar' = <<Zero, Zero, Zero>>
    /\ brdfDepthMap' = <<Zero, Zero, Zero>>
    /\ brdfTerms' = NoBrdfTerms
    /\ UNCHANGED <<glsl, smVars, pcfVars, lightVars, areaVars, colorVars, appVars, dmVars, loopVars, cameraVars, paramVars, pickVars, renderVars, rotateVars>>

(***************************************************************************)
(* Light direction and attenuation: computeLighting of the planar-shadow   *)
(* shader (point, directional and spot branches) and calculateLight of the *)
(* depth-map shader                                                        *)
(***************************************************************************)
spotAttenuation(u, L, dir) ==
    LET cosTheta == FDot3(FNormalize(V3Neg(dir)), L)
        edge == u.spotAngle
        softness == u.spotSoftness
    IN  FSmoothstep(edge, FAdd(edge, softness), cosTheta)

\* L, the attenuation and the cone factor in it, as computeLighting
\* computes them before it calls evaluateBRDF
computeLighting(u, vWorldPos) ==
    LET lightVec == V3Sub(u.lightPos, vWorldPos)
        dist == FMax(Eps3, FLength(lightVec))
        L == V3DivS(lightVec, dist)
    IN  IF u.lightType = 0 THEN
            [L |-> L, attenuation |-> FDiv(One, FMul(dist, dist)), cone |-> One,
             cosTheta |-> One]
        ELSE IF u.lightType = 1 THEN
            [L |-> FNormalize(V3Neg(u.lightDir)), attenuation |-> One, cone |-> One,
             cosTheta |-> One]
        ELSE
            [L |-> L,
             attenuation |-> FMul(spotAttenuation(u, L, u.lightDir),
                                  FDiv(One, FMul(dist, dist))),
             cone |-> spotAttenuation(u, L, u.lightDir),
             cosTheta |-> FDot3(FNormalize(V3Neg(u.lightDir)), L)]

calculateLight(u, vWorldPosition) ==
    LET lightVec == V3Sub(u.lightPos, vWorldPosition)
        dist == FLength(lightVec)
        L == FNormalize(lightVec)
        theta == FDot3(L, FNormalize(V3Neg(u.lightDirection)))
        innerCone == FCos(FMul(u.spotAngle, Half))
        outerCone == FCos(FAdd(FMul(u.spotAngle, Half), u.spotSoftness))
        spotEffect == FSmoothstep(outerCone, innerCone, theta)
        area == FMul(u.areaSize[1], u.areaSize[2])
    IN  IF u.lightType = 0 THEN
            [L |-> L, attenuation |-> FDiv(One, FMul(dist, dist)), cone |-> One,
             cosTheta |-> One]
        ELSE IF u.lightType = 1 THEN
            [L |-> FNormalize(V3Neg(u.lightDirection)), attenuation |-> One,
             cone |-> One, cosTheta |-> One]
        ELSE IF u.lightType = 2 THEN
            [L |-> L, attenuation |-> FDiv(spotEffect, FMul(dist, dist)),
             cone |-> spotEffect, cosTheta |-> theta]
        ELSE
            [L |-> L, attenuation |-> FDiv(area, FAdd(FMul(dist, dist), area)),
             cone |-> One, cosTheta |-> One]

\* positions in eighths of a unit
MaxSweep == 32
Eighths(v) == <<FromRatio(v[1], 8), FromRatio(v[2], 8), FromRatio(v[3], 8)>>
LightPositions == {<<0, 16, 0>>, <<0, 8, 0>>}
LightTypes == {0, 1, 2}
SpotAngles == {FromRatio(1, 2), One}
SpotSoftnesses == {FromRatio(1, 10), FromRatio(3, 10)}
\* fragments of the floor along a line below the light, and fragments of an
\* object around the light
LitFragments ==
    {<<k, 0, 0>> : k \in 0..MaxSweep}
        \cup {<<0, 16, 0>>, <<0, 8, 0>>, <<8, 16, 0>>, <<16, 16, 0>>, <<0, 24, 0>>}

\* the uniforms of a frame: setUniforms of the planar-shadow renderer
\* uploads the normalized lightDir, animate of the depth-map renderer the
\* direction from the light to the origin
LightUniforms(type, pos, angle, softness) ==
    [lightType |-> type, pos |-> pos, lightPos |-> Eighths(pos),
     lightDir |-> <<Zero, FNeg(One), Zero>>,
     lightDirection |-> V3Neg(Eighths(pos)),
     spotAngle |-> angle, spotSoftness |-> softness, areaSize |-> <<One, One>>]

NoLight == [L |-> <<Zero, Zero, Zero>>, attenuation |-> Zero, cone |-> Zero,
            cosTheta |-> Zero]

InitLight ==
    /\ lightDone = FALSE
    /\ lightIn = LightUniforms(0, <<0, 16, 0>>, FromRatio(1, 2), FromRatio(1, 10))
    /\ lightFrag = <<0, 0, 0>>
    /\ lightPlanar = NoLight
    /\ lightDepthMap = NoLight

\* a light control is moved between two frames
SetLight ==
    /\ ~lightDone
    /\ \E type \in LightTypes, pos \in LightPositions, angle \in SpotAngles,
          softness \in SpotSoftnesses :
        lightIn' = LightUniforms(type, pos, angle, softness)
    /\ UNCHANGED <<lightDone, lightFrag, lightPlanar, lightDepthMap>>
    /\ UNCHANGED <<glsl, smVars, pcfVars, brdfVars, areaVars, colorVars, appVars, dmVars, loopVars, cameraVars, paramVars, pickVars, renderVars, rotateVars>>

\* the fragments the rasterizer can produce next: any fragment at the start
\* of a frame, then the neighbour on the scan line
NextFragments ==
    IF ~lightDone THEN LitFragments
    ELSE {<<lightFrag[1] + 1, lightFrag[2], lightFrag[3]>>} \cap LitFragments

\* both fragment shaders light a fragment of the frame
ShadeLight ==
    /\ \E p \in NextFragments :
        /\ lightFrag' = p
        /\ lightPlanar' = computeLighting(lightIn, Eighths(p))
        /\ lightDepthMap' = calculateLight(lightIn, Eighths(p))
    /\ lightDone' = TRUE
    /\ UNCHANGED lightIn
    /\ UNCHANGED <<glsl, smVars, pcfVars, brdfVars, areaVars, colorVars, appVars, dmVars, loopVars, cameraVars, paramVars, pickVars, renderVars, rotateVars>>

\* the frame is over and nothing of its fragments is kept
EndLightFrame ==
    /\ lightDone
    /\ lightDone' = FALSE
    /\ lightFrag' = <<0, 0, 0>>
    /\ lightPlanar' = NoLight
    /\ lightDepthMap' = NoLight
    /\ UNCHANGED lightIn
    /\ UNCHANGED <<glsl, smVars, pcfVars, brdfVars, areaVars, colorVars, appVars, dmVars, loopVars, cameraVars, paramVars, pickVars, renderVars, rotateVars>>

(***************************************************************************)
(* Area light: the sampling loop of computeLighting and the area branch of *)
(* calculateLight                                                          *)
(***************************************************************************)
\* <<t, b>> of basisFromDir
basisFromDir(n) ==
    LET up == IF FLt(FAbs(n[2]), FromRatio(999, 1000)) THEN <<Zero, One, Zero>>
              ELSE <<One, Zero, Zero>>
        t == FNormalize(V3Cross(up, n))
    IN  <<t, V3Cross(n, t)>>

gridSize == 8

\* (float(i) / float(gridSize - 1)) * 2.0 - 1.0
gridCoord(i) ==
    FSub(FMul(FDiv(FromInt(i), FromInt(gridSize - 1)), FromInt(2)), One)

\* what the body of the loop adds to result for the sample (ix, iy)
\* (the statements of the body in order, each on the values of the ones
\* before: from cosTheta on, from dist and L on, from lightVec on)
areaSample_cosTheta(u, N, V, L, dist, cosTheta) ==
    IF FGt(cosTheta, Zero)
    THEN evaluateBRDF(u, N, V, L,
                      V3Scale(V3Scale(u.lightColor, u.lightIntensity),
                              FDiv(cosTheta, FMul(dist, dist))))
    ELSE <<Zero, Zero, Zero>>

areaSample_L(u, N, V, L, dist) ==
    CHOOSE out \in {areaSample_cosTheta(u, N, V, L, dist, cosTheta) :
                        cosTheta \in {FDot3(FNormalize(V3Neg(u.lightDir)),
                                            V3Neg(L))}} : TRUE

areaSample_lightVec(u, N, V, lightVec) ==
    CHOOSE out \in {areaSample_L(u, N, V, L, dist) :
                        dist \in {FMax(Eps3, FLength(lightVec))},
                        L \in {V3DivS(lightVec, FMax(Eps3, FLength(lightVec)))}} : TRUE

areaSample(u, N, V, vWorldPos, tb, ix, iy) ==
    CHOOSE out \in
        {areaSample_lightVec(u, N, V, lightVec) :
            lightVec \in
                {V3Sub(V3Add(V3Add(u.lightPos,
                                   V3Scale(tb[1], FMul(gridCoord(ix),
                                                       FMul(u.areaSize[1], Half)))),
                             V3Scale(tb[2], FMul(gridCoord(iy),
                                                 FMul(u.areaSize[2], Half)))),
                       vWorldPos)}} : TRUE

\* the two nested loops run for the samples lo .. hi - 1 in order, the
\* sample i being (ix, iy) with i = ix * gridSize + iy: result after them,
\* from result before them
RECURSIVE areaLoop(_, _, _, _, _, _, _, _)
areaLoop(u, N, V, vWorldPos, tb, lo, hi, result) ==
    IF hi - lo = 1
    THEN CHOOSE r \in
            {V3Add(result, sample) :
               sample \in {areaSample(u, N, V, vWorldPos, tb, lo \div gridSize,
                                      lo % gridSize)}} : TRUE
    ELSE CHOOSE r \in
            {areaLoop(u, N, V, vWorldPos, tb, (lo + hi) \div 2, hi, first) :
               first \in {areaLoop(u, N, V, vWorldPos, tb, lo, (lo + hi) \div 2, result)}} :
            TRUE

\* result of computeLighting, before the ambient term is added
computeLightingResult(u, N, V, vWorldPos) ==
    IF u.lightType \in {0, 1, 2} THEN
        CHOOSE out \in {evaluateBRDF(u, N, V, light.L,
                                     V3Scale(V3Scale(u.lightColor, u.lightIntensity),
                                             light.attenuation)) :
                            light \in {computeLighting(u, vWorldPos)}} : TRUE
    ELSE
        CHOOSE out \in
            {V3DivS(areaLoop(u, N, V, vWorldPos, tb, 0, gridSize * gridSize,
                             <<Zero, Zero, Zero>>),
                    FromInt(gridSize * gridSize)) :
                tb \in {basisFromDir(FNormalize(V3Neg(u.lightDir)))}} : TRUE

\* vec3.normalize(state.lightDir) of the initial UI state
DefaultLightDir == FNormalize(<<Zero, FNeg(One), FNeg(One)>>)
\* the directions uLightDir can be given
AreaLightDirs ==
    {DefaultLightDir, <<Zero, FNeg(One), Zero>>, <<Zero, One, Zero>>, <<One, Zero, Zero>>}
\* the rectangle of the area size sliders, the degenerate one included
AreaSizes == {<<Zero, Zero>>, <<One, One>>}
\* fragments of the floor, and of objects above and beside the light
AreaFragments ==
    {[p |-> <<0, 0, 0>>, N |-> Fifths(<<0, 5, 0>>), V |-> Fifths(<<3, 4, 0>>)],
     [p |-> <<8, 0, 0>>, N |-> Fifths(<<0, 5, 0>>), V |-> Fifths(<<3, 4, 0>>)],
     [p |-> <<0, 24, 0>>, N |-> Fifths(<<0, -5, 0>>), V |-> Fifths(<<3, -4, 0>>)],
     [p |-> <<16, 16, 0>>, N |-> Fifths(<<-5, 0, 0>>), V |-> Fifths(<<-4, 3, 0>>)],
     [p |-> <<-8, 8, 0>>, N |-> Fifths(<<3, 4, 0>>), V |-> Fifths(<<0, 5, 0>>)]}

AreaUniforms(type, pos, dir, size, intensity) ==
    [lightType |-> type, pos |-> pos, lightPos |-> Eighths(pos), lightDir |-> dir,
     lightDirection |-> V3Neg(Eighths(pos)),
     spotAngle |-> Half, spotSoftness |-> FromRatio(1, 10), areaSize |-> size,
     albedo |-> <<One, FromRatio(42, 100), FromRatio(42, 100)>>, metallic |-> Half,
     roughness |-> FromRatio(3, 10), lightColor |-> LightColor,
     lightIntensity |-> intensity]

NoAreaResult == [area |-> <<Zero, Zero, Zero>>, point |-> <<Zero, Zero, Zero>>]
NoAreaLight == [area |-> NoLight, point |-> NoLight]

InitArea ==
    /\ areaDone = FALSE
    /\ areaIn = AreaUniforms(3, <<0, 16, 0>>, DefaultLightDir, <<One, One>>, FromInt(3))
    /\ areaFrag = [p |-> <<0, 0, 0>>, N |-> Fifths(<<0, 5, 0>>), V |-> Fifths(<<3, 4, 0>>)]
    /\ areaPlanar = NoAreaResult
    /\ areaDepthMap = NoAreaLight

\* an area light control is moved between two frames
SetAreaLight ==
    /\ ~areaDone
    /\ \E pos \in LightPositions, dir \in AreaLightDirs, size \in AreaSizes,
          intensity \in LightIntensities :
        areaIn' = AreaUniforms(3, pos, dir, size, intensity)
    /\ UNCHANGED <<areaDone, areaFrag, areaPlanar, areaDepthMap>>
    /\ UNCHANGED <<glsl, smVars, pcfVars, brdfVars, lightVars, colorVars, appVars, dmVars, loopVars, cameraVars, paramVars, pickVars, renderVars, rotateVars>>

\* both fragment shaders light a fragment with the area light, and with the
\* light type switched to point and every other uniform unchanged
ShadeArea ==
    /\ ~areaDone
    /\ \E f \in AreaFragments :
        /\ areaFrag' = f
        /\ areaPlanar' =
             [area |-> computeLightingResult(areaIn, f.N, f.V, Eighths(f.p)),
              point |-> computeLightingResult([areaIn EXCEPT !.lightType = 0],
                                              f.N, f.V, Eighths(f.p))]
        /\ areaDepthMap' =
             [area |-> calculateLight(areaIn, Eighths(f.p)),
              point |-> calculateLight([areaIn EXCEPT !.lightType = 0], Eighths(f.p))]
    /\ areaDone' = TRUE
    /\ UNCHANGED areaIn
    /\ UNCHANGED <<glsl, smVars, pcfVars, brdfVars, lightVars, colorVars, appVars, dmVars, loopVars, cameraVars, paramVars, pickVars, renderVars, rotateVars>>

\* the frame is over and nothing of its fragments is kept
EndAreaFrame ==
    /\ areaDone
    /\ areaDone' = FALSE
    /\ areaPlanar' = NoAreaResult
    /\ areaDepthMap' = NoAreaLight
    /\ areaFrag' = [p |-> <<0, 0, 0>>, N |-> Fifths(<<0, 5, 0>>), V |-> Fifths(<<3, 4, 0>>)]
    /\ UNCHANGED areaIn
    /\ UNCHANGED <<glsl, smVars, pcfVars, brdfVars, lightVars, colorVars, appVars, dmVars, loopVars, cameraVars, paramVars, pickVars, renderVars, rotateVars>>

(***************************************************************************)
(* The colour of a fragment: main of both fragment shaders up to the tone   *)
(* mapping                                                                 *)
(***************************************************************************)
\* shadowBlend = 0.0 of the parameters of setUniforms
shadowBlendDefault == Zero

\* uShadowBlend as setUniforms uploads it for the parameters of a draw
uShadowBlend(params) ==
    IF "shadowBlend" \in DOMAIN params THEN params.shadowBlend ELSE shadowBlendDefault

\* the parameters Renderer.render hands to setUniforms for the object
ObjectDrawParams(state) == [state |-> state]

\* main of the planar-shadow fragment shader: computeLighting (ambient +
\* result), then the shadow darkening
fragmentMainBlend(u, ambient, lit) ==
    [shadowBlend |-> u.shadowBlend, ambient |-> ambient, lit |-> lit,
     color |-> V3Mix(lit, V3Scale(lit, FSub(One, u.shadowBlend)), u.shadowBlend)]

fragmentMainLit(u, ambient, result) ==
    CHOOSE out \in {fragmentMainBlend(u, ambient, lit) :
                        lit \in {V3Add(ambient, result)}} : TRUE

fragmentMain(u, N, V, vWorldPos) ==
    CHOOSE out \in {fragmentMainLit(u, ambient, result) :
                        ambient \in {V3Scale(u.albedo, FromRatio(3, 100))},
                        result \in {computeLightingResult(u, N, V, vWorldPos)}} : TRUE

\* ambient of main of the depth-map shader (step 10)
main_ambient(u) ==
    V3Add(V3Scale(u.albedo, FromRatio(3, 100)),
          V3Scale(V3Scale(V3Scale(V3Mix(V3Splat(DielectricF0), u.albedo, u.metallic),
                                  FromRatio(15, 100)),
                          FSub(One, u.roughness)),
                  u.metallic))

\* main of the depth-map fragment shader, steps 1 to 11
depthMapMainColor(shadow, ambient, Lo) ==
    [shadow |-> shadow, ambient |-> ambient, Lo |-> Lo, color |-> V3Add(ambient, Lo)]

\* the statements of main run in order, each on the values of the ones before
depthMapMainShadowed(u, N, V, light, shadow) ==
    CHOOSE out \in {depthMapMainColor(shadow, ambient, Lo) :
                        ambient \in {main_ambient(u)},
                        Lo \in {CookTorranceLo(u, N, V, light.L, light.attenuation,
                                               shadow)}} : TRUE

depthMapMainLit(u, N, V, light, tex, vLightSpacePos) ==
    CHOOSE out \in {depthMapMainShadowed(u, N, V, light, shadow) :
                        shadow \in {calculateShadow(u.shadowEnabled, u.shadowBias, tex,
                                                    vLightSpacePos, N, light.L)}} : TRUE

depthMapMain(u, N, V, vWorldPosition, tex, vLightSpacePos) ==
    CHOOSE out \in {depthMapMainLit(u, N, V, light, tex, vLightSpacePos) :
                        light \in {calculateLight(u, vWorldPosition)}} : TRUE

\* the materials and the shadow checkbox the UI can leave
ColorMaterials ==
    {[albedo |-> a, metallic |-> mt] :
        a \in {<<One, Half, Zero>>, <<One, One, One>>}, mt \in {Zero, Half}}

\* the uniforms of a frame lit by a directional light shining along -L
ColorUniforms(material, enabled, L) ==
    [lightType |-> 1, lightPos |-> Eighths(<<0, 16, 0>>), lightDir |-> V3Neg(L),
     lightDirection |-> V3Neg(L), spotAngle |-> Half,
     spotSoftness |-> FromRatio(1, 10), areaSize |-> <<One, One>>,
     albedo |-> material.albedo, metallic |-> material.metallic, roughness |-> Half,
     lightColor |-> LightColor, lightIntensity |-> FromInt(3),
     shadowEnabled |-> IF enabled THEN 1 ELSE 0, shadowBias |-> ShadowBias,
     shadowBlend |-> uShadowBlend(ObjectDrawParams(material))]

\* N, V and L of the fragments that are shaded; the last one has the light
\* straight behind the surface point, seen from the camera
ColorVectors ==
    {[N |-> Fifths(<<0, 5, 0>>), V |-> Fifths(<<3, 4, 0>>), L |-> Fifths(<<0, 5, 0>>)],
     [N |-> Fifths(<<0, 5, 0>>), V |-> Fifths(<<0, 5, 0>>), L |-> Fifths(<<3, 4, 0>>)],
     [N |-> Fifths(<<0, 3, 4>>), V |-> Fifths(<<0, 5, 0>>), L |-> Fifths(<<0, 4, -3>>)],
     [N |-> Fifths(<<0, 5, 0>>), V |-> Fifths(<<3, 4, 0>>), L |-> Fifths(<<-3, -4, 0>>)]}

\* the depth texture after renderShadowMap: no occluder in the light
\* frustum, one over a part of it, one over all of it
ColorTextures ==
    {[t \in Texels |-> One],
     DepthAfterDraw(<<0, 0>>, <<1, ShadowMapSize - 1>>, OccluderDepth),
     DepthAfterDraw(<<0, 0>>, <<ShadowMapSize - 1, ShadowMapSize - 1>>, OccluderDepth)}

\* light-space position of the fragments: the middle of the shadow map,
\* behind the occluder
ColorLightSpacePos == <<Zero, Zero, Half, One>>

NoColor == [planar |-> [shadowBlend |-> Zero, ambient |-> <<Zero, Zero, Zero>>,
                        lit |-> <<Zero, Zero, Zero>>, color |-> <<Zero, Zero, Zero>>],
            depthMap |-> [shadow |-> One, ambient |-> <<Zero, Zero, Zero>>,
                          Lo |-> <<Zero, Zero, Zero>>, color |-> <<Zero, Zero, Zero>>]]
NoColorFrag == [N |-> Fifths(<<0, 5, 0>>), V |-> Fifths(<<0, 5, 0>>), L |-> Fifths(<<0, 5, 0>>)]

InitColor ==
    /\ colorDone = FALSE
    /\ colorIn = [material |-> [albedo |-> <<One, Half, Zero>>, metallic |-> Half],
                  shadowEnabled |-> TRUE]
    /\ colorFrag = NoColorFrag
    /\ colorTexture = [t \in Texels |-> Zero]
    /\ colorPlanar = NoColor.planar
    /\ colorDepthMap = NoColor.depthMap

\* a material control or the shadow checkbox is changed between two frames
SetColorInput ==
    /\ ~colorDone
    /\ \E material \in ColorMaterials, enabled \in BOOLEAN :
        colorIn' = [material |-> material, shadowEnabled |-> enabled]
    /\ UNCHANGED <<colorDone, colorFrag, colorTexture, colorPlanar, colorDepthMap>>
    /\ UNCHANGED <<glsl, smVars, pcfVars, brdfVars, lightVars, areaVars, appVars, dmVars, loopVars, cameraVars, paramVars, pickVars, renderVars, rotateVars>>

\* a frame: the depth pass leaves the depth texture, and both fragment
\* shaders shade a fragment of the object
ShadeColor ==
    /\ ~colorDone
    /\ \E f \in ColorVectors, tex \in ColorTextures :
        LET u == ColorUniforms(colorIn.material, colorIn.shadowEnabled, f.L)
        IN  /\ colorFrag' = f
            /\ colorTexture' = tex
            /\ colorPlanar' = fragmentMain(u, f.N, f.V, <<Zero, Zero, Zero>>)
            /\ colorDepthMap' = depthMapMain(u, f.N, f.V, <<Zero, Zero, Zero>>, tex,
                                             ColorLightSpacePos)
    /\ colorDone' = TRUE
    /\ UNCHANGED colorIn
    /\ UNCHANGED <<glsl, smVars, pcfVars, brdfVars, lightVars, areaVars, appVars, dmVars, loopVars, cameraVars, paramVars, pickVars, renderVars, rotateVars>>

\* the frame is over and nothing of its fragments is kept
EndColorFrame ==
    /\ colorDone
    /\ colorDone' = FALSE
    /\ colorFrag' = NoColorFrag
    /\ colorPlanar' = NoColor.planar
    /\ colorDepthMap' = NoColor.depthMap
    /\ UNCHANGED <<colorIn, colorTexture>>
    /\ UNCHANGED <<glsl, smVars, pcfVars, brdfVars, lightVars, areaVars, appVars, dmVars, loopVars, cameraVars, paramVars, pickVars, renderVars, rotateVars>>

(***************************************************************************)
(* The planar-shadow application: the script js/main.js, the event         *)
(* handlers of UIManager and of the canvas, and a frame of Renderer.render *)
(* JavaScript numbers are the floats of this module                        *)
(***************************************************************************)
vec3_scale(a, s) == <<FMul(a[1], s), FMul(a[2], s), FMul(a[3], s)>>
vec3_sub(a, b) == <<FSub(a[1], b[1]), FSub(a[2], b[2]), FSub(a[3], b[3])>>
vec3_add(a, b) == <<FAdd(a[1], b[1]), FAdd(a[2], b[2]), FAdd(a[3], b[3])>>
\* Math.hypot(a[0], a[1], a[2])
vec3_length(a) == FSqrt(FDot3(a, a))
\* vec3.length(a) || 1: zero and NaN are falsy
vec3_lengthOr1(length) == IF length = Zero \/ IsNaN(length) THEN One ELSE length
vec3_normalize(a) == V3DivS(a, vec3_lengthOr1(vec3_length(a)))

FLOOR_Y == FromRatio(-75, 100)
\* the default of the parameter planeEq: [0, 1, 0, -(FLOOR_Y + 0.01)]
defaultPlaneEq == <<Zero, One, Zero, FNeg(FAdd(FLOOR_Y, FromRatio(1, 100)))>>

\* const dot = a * lx + b * ly + c * lz + d * lw
buildShadowMatrix_dot(lightH, plane) ==
    FAdd(FAdd(FAdd(FMul(plane[1], lightH[1]), FMul(plane[2], lightH[2])),
              FMul(plane[3], lightH[3])),
         FMul(plane[4], lightH[4]))

\* window.__debugShadow && Math.abs(dot) < 0.001
buildShadowMatrix_warns(debug, dot) == debug /\ FLt(FAbs(dot), Eps3)

\* mutant: every light type but the point light is taken for a direction
RenderLightHomogeneousPointOnly(state) ==
    IF state.lightType # 0
    THEN vec3_normalize(vec3_scale(state.lightDir, FNeg(One))) \o <<Zero>>
    ELSE state.lightPos \o <<One>>

\* const lightHomogeneous = state.lightType === 1 ? [...] : [...]
RenderLightHomogeneous(state) ==
    IF state.lightType = 1
    THEN vec3_normalize(vec3_scale(state.lightDir, FNeg(One))) \o <<Zero>>
    ELSE state.lightPos \o <<One>>

NoShadowPass == [called |-> FALSE, lightHomogeneous |-> <<>>, dot |-> Zero, warned |-> FALSE]

\* the shadow pass of Renderer.render: the call of buildShadowMatrix with the
\* default plane; the matrix it returns is a function of lightHomogeneous
RenderShadowPass(lightH, debug) ==
    [called |-> TRUE,
     lightHomogeneous |-> lightH,
     dot |-> buildShadowMatrix_dot(lightH, defaultPlaneEq),
     warned |-> buildShadowMatrix_warns(debug,
                    buildShadowMatrix_dot(lightH, defaultPlaneEq))]

\* Renderer.render followed by the debug vectors of render in main.js: the
\* light uniforms of setUniforms, the shadow pass if state.shadowEnabled and
\* debugRenderer.render(hoverInfo, hoverInfo.vectors, ...) if hoverInfo
RendererRender(state, hover, debug, first) ==
    [first |-> first,
     state |-> state,
     uLightType |-> state.lightType,
     uLightPos |-> state.lightPos,
     uLightDir |-> vec3_normalize(state.lightDir),
     shadow |-> IF state.shadowEnabled
                THEN RenderShadowPass(RenderLightHomogeneous(state), debug)
                ELSE NoShadowPass,
     debugVectors |-> hover]

\* camera.position of the initial yaw 0.6, pitch 0.35 and distance 3
CameraPosition == <<FromRatio(1591, 1000), FromRatio(1029, 1000), FromRatio(2326, 1000)>>

\* the light direction of the mousemove handler
hoverL(state, point) ==
    IF state.lightType = 1
    THEN vec3_normalize(vec3_scale(state.lightDir, FNeg(One)))
    ELSE vec3_normalize(vec3_sub(state.lightPos, point))

hoverVectors(L, V) == [L |-> L, V |-> V, H |-> vec3_normalize(vec3_add(V, L))]

\* hoverInfo = { point, normal, vectors } of a hit (the object is the unit
\* sphere at the origin, so the normal is the point)
hoverHit(state, point) ==
    [point |-> point,
     vectors |-> hoverVectors(hoverL(state, point),
                              vec3_normalize(vec3_sub(CameraPosition, point)))]

NoHover == [point |-> <<>>, vectors |-> <<>>]
NoFrame == [first |-> FALSE, state |-> <<>>, uLightType |-> -1, uLightPos |-> <<>>,
            uLightDir |-> <<>>, shadow |-> NoShadowPass, debugVectors |-> NoHover]

\* the point of the sphere the mouse rests on when it hits the object
HitPoints == {<<Zero, Zero, One>>}

\* values of the lightY slider: the initial height, the height of the shadow
\* plane and the float next to it
LightYs == {FromInt(2), FromRatio(-74, 100), FromRatio(-7395, 10000)}

\* mutant: callbacks and events are dispatched while the script still runs
TaskRunsEarly(script) == script \in {"raf", "debug", "done"}

\* a callback or an event handler runs only after the top-level script has
\* run to completion
TaskRuns(script) == script = "done"

\* the application when main.js starts its last statements: UIManager.state
\* as constructed, no hover, nothing drawn
InitApp ==
    /\ appScript = "raf"
    /\ windowDebugShadow = FALSE
    /\ frameRequested = FALSE
    /\ uiState = [lightType |-> 0,
                  lightPos |-> <<FromInt(2), FromInt(2), FromInt(2)>>,
                  lightDir |-> <<Zero, FNeg(One), FNeg(One)>>,
                  shadowEnabled |-> TRUE]
    /\ hoverInfo = NoHover
    /\ appFrame = NoFrame

\* main.js: requestAnimationFrame(render)
ScriptRequestFrame ==
    /\ appScript = "raf"
    /\ appScript' = "debug"
    /\ frameRequested' = TRUE
    /\ UNCHANGED <<windowDebugShadow, uiState, hoverInfo, appFrame>>
    /\ UNCHANGED <<glsl, smVars, pcfVars, brdfVars, lightVars, areaVars, colorVars, dmVars, loopVars, cameraVars, paramVars, pickVars, renderVars, rotateVars>>

\* main.js: window.__debugShadow = true, the last statement of the script
ScriptEnableDebug ==
    /\ appScript = "debug"
    /\ appScript' = "done"
    /\ windowDebugShadow' = TRUE
    /\ UNCHANGED <<frameRequested, uiState, hoverInfo, appFrame>>
    /\ UNCHANGED <<glsl, smVars, pcfVars, brdfVars, lightVars, areaVars, colorVars, dmVars, loopVars, cameraVars, paramVars, pickVars, renderVars, rotateVars>>

\* the animation frame callback render of main.js, which requests the next
RenderFrame ==
    /\ TaskRuns(appScript)
    /\ frameRequested
    /\ appFrame' = RendererRender(uiState, hoverInfo, windowDebugShadow, appFrame = NoFrame)
    /\ UNCHANGED <<appScript, windowDebugShadow, frameRequested, uiState, hoverInfo>>
    /\ UNCHANGED <<glsl, smVars, pcfVars, brdfVars, lightVars, areaVars, colorVars, dmVars, loopVars, cameraVars, paramVars, pickVars, renderVars, rotateVars>>

\* input event of the lightY slider
OnLightYInput ==
    /\ TaskRuns(appScript)
    /\ \E v \in LightYs : uiState' = [uiState EXCEPT !.lightPos[2] = v]
    /\ UNCHANGED <<appScript, windowDebugShadow, frameRequested, hoverInfo, appFrame>>
    /\ UNCHANGED <<glsl, smVars, pcfVars, brdfVars, lightVars, areaVars, colorVars, dmVars, loopVars, cameraVars, paramVars, pickVars, renderVars, rotateVars>>

\* change event of the light type selector
OnLightTypeChange ==
    /\ TaskRuns(appScript)
    /\ \E t \in 0..3 : uiState' = [uiState EXCEPT !.lightType = t]
    /\ UNCHANGED <<appScript, windowDebugShadow, frameRequested, hoverInfo, appFrame>>
    /\ UNCHANGED <<glsl, smVars, pcfVars, brdfVars, lightVars, areaVars, colorVars, dmVars, loopVars, cameraVars, paramVars, pickVars, renderVars, rotateVars>>

\* change event of the shadow checkbox
OnShadowEnabledChange ==
    /\ TaskRuns(appScript)
    /\ \E b \in BOOLEAN : uiState' = [uiState EXCEPT !.shadowEnabled = b]
    /\ UNCHANGED <<appScript, windowDebugShadow, frameRequested, hoverInfo, appFrame>>
    /\ UNCHANGED <<glsl, smVars, pcfVars, brdfVars, lightVars, areaVars, colorVars, dmVars, loopVars, cameraVars, paramVars, pickVars, renderVars, rotateVars>>

\* mousemove on the canvas: a hit stores the vectors, a miss clears them
OnMouseMove ==
    /\ TaskRuns(appScript)
    /\ \/ \E point \in HitPoints : hoverInfo' = hoverHit(uiState, point)
       \/ hoverInfo' = NoHover
    /\ UNCHANGED <<appScript, windowDebugShadow, frameRequested, uiState, appFrame>>
    /\ UNCHANGED <<glsl, smVars, pcfVars, brdfVars, lightVars, areaVars, colorVars, dmVars, loopVars, cameraVars, paramVars, pickVars, renderVars, rotateVars>>

\* mouseleave on the canvas
OnMouseLeave ==
    /\ TaskRuns(appScript)
    /\ hoverInfo' = NoHover
    /\ UNCHANGED <<appScript, windowDebugShadow, frameRequested, uiState, appFrame>>
    /\ UNCHANGED <<glsl, smVars, pcfVars, brdfVars, lightVars, areaVars, colorVars, dmVars, loopVars, cameraVars, paramVars, pickVars, renderVars, rotateVars>>

(***************************************************************************)
(* The depth-map application: the matrices of js/matrix.js, and a frame of *)
(* CookTorranceApp.animate with its depth pass and its main pass           *)
(***************************************************************************)
\* normalize of matrix.js: the zero vector is returned as [0, 0, 0]
normalize_by(v, length) ==
    IF length = Zero THEN <<Zero, Zero, Zero>> ELSE V3DivS(v, length)
normalize(v) == normalize_by(v, FSqrt(FDot3(v, v)))

cross(a, b) ==
    <<FSub(FMul(a[2], b[3]), FMul(a[3], b[2])),
      FSub(FMul(a[3], b[1]), FMul(a[1], b[3])),
      FSub(FMul(a[1], b[2]), FMul(a[2], b[1]))>>

dot(a, b) == FAdd(FAdd(FMul(a[1], b[1]), FMul(a[2], b[2])), FMul(a[3], b[3]))

\* the Float32Array createLookAtMatrix returns, column-major
createLookAtMatrix_build(xAxis, yAxis, zAxis, eye) ==
    <<xAxis[1], yAxis[1], zAxis[1], Zero,
      xAxis[2], yAxis[2], zAxis[2], Zero,
      xAxis[3], yAxis[3], zAxis[3], Zero,
      FNeg(dot(xAxis, eye)), FNeg(dot(yAxis, eye)), FNeg(dot(zAxis, eye)), One>>

\* const yAxis = cross(zAxis, xAxis)
createLookAtMatrix_yAxis(xAxis, zAxis, eye) ==
    CHOOSE out \in {createLookAtMatrix_build(xAxis, yAxis, zAxis, eye) :
                        yAxis \in {cross(zAxis, xAxis)}} : TRUE

\* const xAxis = normalize(cross(up, zAxis))
createLookAtMatrix_xAxis(zAxis, eye, up) ==
    CHOOSE out \in {createLookAtMatrix_yAxis(xAxis, zAxis, eye) :
                        xAxis \in {normalize(cross(up, zAxis))}} : TRUE

\* const zAxis = normalize([eye[0] - center[0], ...])
createLookAtMatrix(eye, center, up) ==
    CHOOSE out \in {createLookAtMatrix_xAxis(zAxis, eye, up) :
                        zAxis \in {normalize(V3Sub(eye, center))}} : TRUE

createOrthographicMatrix_build(left, right, bottom, top, near, far, lr, bt, nf) ==
    <<FMul(FromInt(-2), lr), Zero, Zero, Zero,
      Zero, FMul(FromInt(-2), bt), Zero, Zero,
      Zero, Zero, FMul(FromInt(2), nf), Zero,
      FMul(FAdd(left, right), lr), FMul(FAdd(top, bottom), bt),
      FMul(FAdd(far, near), nf), One>>

createOrthographicMatrix(left, right, bottom, top, near, far) ==
    createOrthographicMatrix_build(left, right, bottom, top, near, far,
        FDiv(One, FSub(left, right)), FDiv(One, FSub(bottom, top)),
        FDiv(One, FSub(near, far)))

\* sum += a[row + k * 4] * b[k + col * 4] for k = 0 .. 3, from sum = 0
multiplyMatrices_sum(a, b, row, col) ==
    FAdd(FAdd(FAdd(FAdd(Zero, FMul(a[row + 1], b[col * 4 + 1])),
                   FMul(a[row + 5], b[col * 4 + 2])),
              FMul(a[row + 9], b[col * 4 + 3])),
         FMul(a[row + 13], b[col * 4 + 4]))

\* result[row + col * 4] = sum
multiplyMatrices(a, b) ==
    [i \in 1..16 |-> multiplyMatrices_sum(a, b, (i - 1) % 4, (i - 1) \div 4)]

\* the sixteen cofactors inv[0] .. inv[15], in the order of their indices
invertMatrix_cofactors(m) ==
    <<
      \* inv[0]
      FSub(FAdd(FAdd(FSub(FSub(FMul(FMul(m[6], m[11]), m[16]),
        FMul(FMul(m[6], m[12]), m[15])),
        FMul(FMul(m[10], m[7]), m[16])),
        FMul(FMul(m[10], m[8]), m[15])),
        FMul(FMul(m[14], m[7]), m[12])),
        FMul(FMul(m[14], m[8]), m[11])),
      \* inv[1]
      FAdd(FSub(FSub(FAdd(FAdd(FMul(FMul(FNeg(m[2]), m[11]), m[16]),
        FMul(FMul(m[2], m[12]), m[15])),
        FMul(FMul(m[10], m[3]), m[16])),
        FMul(FMul(m[10], m[4]), m[15])),
        FMul(FMul(m[14], m[3]), m[12])),
        FMul(FMul(m[14], m[4]), m[11])),
      \* inv[2]
      FSub(FAdd(FAdd(FSub(FSub(FMul(FMul(m[2], m[7]), m[16]),
        FMul(FMul(m[2], m[8]), m[15])),
        FMul(FMul(m[6], m[3]), m[16])),
        FMul(FMul(m[6], m[4]), m[15])),
        FMul(FMul(m[14], m[3]), m[8])),
        FMul(FMul(m[14], m[4]), m[7])),
      \* inv[3]
      FAdd(FSub(FSub(FAdd(FAdd(FMul(FMul(FNeg(m[2]), m[7]), m[12]),
        FMul(FMul(m[2], m[8]), m[11])),
        FMul(FMul(m[6], m[3]), m[12])),
        FMul(FMul(m[6], m[4]), m[11])),
        FMul(FMul(m[10], m[3]), m[8])),
        FMul(FMul(m[10], m[4]), m[7])),
      \* inv[4]
      FAdd(FSub(FSub(FAdd(FAdd(FMul(FMul(FNeg(m[5]), m[11]), m[16]),
        FMul(FMul(m[5], m[12]), m[15])),
        FMul(FMul(m[9], m[7]), m[16])),
        FMul(FMul(m[9], m[8]), m[15])),
        FMul(FMul(m[13], m[7]), m[12])),
        FMul(FMul(m[13], m[8]), m[11])),
      \* inv[5]
      FSub(FAdd(FAdd(FSub(FSub(FMul(FMul(m[1], m[11]), m[16]),
        FMul(FMul(m[1], m[12]), m[15])),
        FMul(FMul(m[9], m[3]), m[16])),
        FMul(FMul(m[9], m[4]), m[15])),
        FMul(FMul(m[13], m[3]), m[12])),
        FMul(FMul(m[13], m[4]), m[11])),
      \* inv[6]
      FAdd(FSub(FSub(FAdd(FAdd(FMul(FMul(FNeg(m[1]), m[7]), m[16]),
        FMul(FMul(m[1], m[8]), m[15])),
        FMul(FMul(m[5], m[3]), m[16])),
        FMul(FMul(m[5], m[4]), m[15])),
        FMul(FMul(m[13], m[3]), m[8])),
        FMul(FMul(m[13], m[4]), m[7])),
      \* inv[7]
      FSub(FAdd(FAdd(FSub(FSub(FMul(FMul(m[1], m[7]), m[12]),
        FMul(FMul(m[1], m[8]), m[11])),
        FMul(FMul(m[5], m[3]), m[12])),
        FMul(FMul(m[5], m[4]), m[11])),
        FMul(FMul(m[9], m[3]), m[8])),
        FMul(FMul(m[9], m[4]), m[7])),
      \* inv[8]
      FSub(FAdd(FAdd(FSub(FSub(FMul(FMul(m[5], m[10]), m[16]),
        FMul(FMul(m[5], m[12]), m[14])),
        FMul(FMul(m[9], m[6]), m[16])),
        FMul(FMul(m[9], m[8]), m[14])),
        FMul(FMul(m[13], m[6]), m[12])),
        FMul(FMul(m[13], m[8]), m[10])),
      \* inv[9]
      FAdd(FSub(FSub(FAdd(FAdd(FMul(FMul(FNeg(m[1]), m[10]), m[16]),
        FMul(FMul(m[1], m[12]), m[14])),
        FMul(FMul(m[9], m[2]), m[16])),
        FMul(FMul(m[9], m[4]), m[14])),
        FMul(FMul(m[13], m[2]), m[12])),
        FMul(FMul(m[13], m[4]), m[10])),
      \* inv[10]
      FSub(FAdd(FAdd(FSub(FSub(FMul(FMul(m[1], m[6]), m[16]),
        FMul(FMul(m[1], m[8]), m[14])),
        FMul(FMul(m[5], m[2]), m[16])),
        FMul(FMul(m[5], m[4]), m[14])),
        FMul(FMul(m[13], m[2]), m[8])),
        FMul(FMul(m[13], m[4]), m[6])),
      \* inv[11]
      FAdd(FSub(FSub(FAdd(FAdd(FMul(FMul(FNeg(m[1]), m[6]), m[12]),
        FMul(FMul(m[1], m[8]), m[10])),
        FMul(FMul(m[5], m[2]), m[12])),
        FMul(FMul(m[5], m[4]), m[10])),
        FMul(FMul(m[9], m[2]), m[8])),
        FMul(FMul(m[9], m[4]), m[6])),
      \* inv[12]
      FAdd(FSub(FSub(FAdd(FAdd(FMul(FMul(FNeg(m[5]), m[10]), m[15]),
        FMul(FMul(m[5], m[11]), m[14])),
        FMul(FMul(m[9], m[6]), m[15])),
        FMul(FMul(m[9], m[7]), m[14])),
        FMul(FMul(m[13], m[6]), m[11])),
        FMul(FMul(m[13], m[7]), m[10])),
      \* inv[13]
      FSub(FAdd(FAdd(FSub(FSub(FMul(FMul(m[1], m[10]), m[15]),
        FMul(FMul(m[1], m[11]), m[14])),
        FMul(FMul(m[9], m[2]), m[15])),
        FMul(FMul(m[9], m[3]), m[14])),
        FMul(FMul(m[13], m[2]), m[11])),
        FMul(FMul(m[13], m[3]), m[10])),
      \* inv[14]
      FAdd(FSub(FSub(FAdd(FAdd(FMul(FMul(FNeg(m[1]), m[6]), m[15]),
        FMul(FMul(m[1], m[7]), m[14])),
        FMul(FMul(m[5], m[2]), m[15])),
        FMul(FMul(m[5], m[3]), m[14])),
        FMul(FMul(m[13], m[2]), m[7])),
        FMul(FMul(m[13], m[3]), m[6])),
      \* inv[15]
      FSub(FAdd(FAdd(FSub(FSub(FMul(FMul(m[1], m[6]), m[11]),
        FMul(FMul(m[1], m[7]), m[10])),
        FMul(FMul(m[5], m[2]), m[11])),
        FMul(FMul(m[5], m[3]), m[10])),
        FMul(FMul(m[9], m[2]), m[7])),
        FMul(FMul(m[9], m[3]), m[6]))
    >>

\* what invertMatrix returns for a matrix that is not invertible
Null == <<>>

\* det = 1.0 / det; inv[i] *= det
invertMatrix_scale(inv, rdet) == [i \in 1..16 |-> FMul(inv[i], rdet)]

\* if (det === 0) return null
invertMatrix_check(inv, det) ==
    IF det = Zero THEN Null ELSE invertMatrix_scale(inv, FDiv(One, det))

\* let det = m[0] * inv[0] + m[1] * inv[4] + m[2] * inv[8] + m[3] * inv[12]
invertMatrix_det(m, inv) ==
    CHOOSE out \in
        {invertMatrix_check(inv, det) :
            det \in {FAdd(FAdd(FAdd(FMul(m[1], inv[1]), FMul(m[2], inv[5])),
                               FMul(m[3], inv[9])),
                          FMul(m[4], inv[13]))}} : TRUE

invertMatrix(m) ==
    CHOOSE out \in {invertMatrix_det(m, inv) : inv \in {invertMatrix_cofactors(m)}} : TRUE

\* the angles rotationY and rotationX take: none, and atan(3/4)
RotationAngles == {Zero, FromRatio(6435, 10000)}
\* Math.cos and Math.sin of these angles
Math_cos(angle) == IF angle = Zero THEN One ELSE FromRatio(8, 10)
Math_sin(angle) == IF angle = Zero THEN Zero ELSE FromRatio(6, 10)

\* y1 and z2 of getRotatedLightPosition
getRotatedLightPosition_x(x1, y, z1, cosX, sinX) ==
    <<x1, FSub(FMul(y, cosX), FMul(z1, sinX)), FAdd(FMul(y, sinX), FMul(z1, cosX))>>

\* x1 and z1 of getRotatedLightPosition
getRotatedLightPosition_y(x, y, z, cosY, sinY, rotationX) ==
    getRotatedLightPosition_x(FAdd(FMul(x, cosY), FMul(z, sinY)), y,
                              FAdd(FMul(FNeg(x), sinY), FMul(z, cosY)),
                              Math_cos(rotationX), Math_sin(rotationX))

getRotatedLightPosition(base, rotationY, rotationX) ==
    getRotatedLightPosition_y(base[1], base[2], base[3],
                              Math_cos(rotationY), Math_sin(rotationY), rotationX)

\* multiplyMatrices(lightProj, lightView)
getLightSpaceMatrix(lp) ==
    CHOOSE out \in
        {multiplyMatrices(lightProj, lightView) :
            lightProj \in
                {createOrthographicMatrix(FromInt(-5), FromInt(5), FromInt(-5),
                                          FromInt(5), FromRatio(1, 10), FromInt(20))},
            lightView \in
                {createLookAtMatrix(V3Scale(lp, FromInt(2)), <<Zero, Zero, Zero>>,
                                    <<Zero, One, Zero>>)}} : TRUE

\* mat4 * vec4 of a column-major matrix, as the vertex shader computes
\* vLightSpacePos = uLightSpaceMatrix * worldPosition
transformPoint(mat, p) ==
    [i \in 1..4 |-> FAdd(FAdd(FAdd(FMul(mat[i], p[1]), FMul(mat[4 + i], p[2])),
                              FMul(mat[8 + i], p[3])),
                         FMul(mat[12 + i], p[4]))]

\* mutant: the framebuffer of the depth pass stays bound
renderShadowMap_exitBound(framebuffer) == framebuffer

\* gl.bindFramebuffer(gl.FRAMEBUFFER, null) at the end of renderShadowMap
renderShadowMap_exit(framebuffer) == "default"

\* drawElements: a draw writes the depth texture if the shadow framebuffer is
\* bound, and samples it if the program has the uShadowMap sampler
drawElements(framebuffer, samples) ==
    (IF framebuffer = "shadow" THEN {"write"} ELSE {})
        \cup (IF samples THEN {"sample"} ELSE {})

\* light positions the three sliders can give: the initial one, one on the
\* world Y axis, one on the world X axis, and the origin
DepthLightPositions ==
    {<<FromInt(2), FromInt(2), FromInt(2)>>, <<Zero, FromInt(2), Zero>>,
     <<FromInt(2), Zero, Zero>>, <<Zero, Zero, Zero>>}

NoPass == [drawn |-> FALSE, lightPosition |-> <<>>, lightSpaceMatrix |-> <<>>]

\* the application when its constructor reaches this.animate(): the
\* parameters of defaultParams, nothing bound, nothing drawn
InitDepthApp ==
    /\ dmPc = "idle"
    /\ dmReady \in BOOLEAN
    /\ dmFramebuffer = "default"
    /\ dmBase = <<FromInt(2), FromInt(2), FromInt(2)>>
    /\ dmRotationY = Zero
    /\ dmRotationX = Zero
    /\ dmAutoRotate = TRUE
    /\ dmLightPosition = <<FromInt(2), FromInt(2), FromInt(2)>>
    /\ dmShadow = NoPass
    /\ dmMain = NoPass
    /\ dmAccess = {}

\* animate up to the call of renderShadowMap: rotationY advances by
\* deltaTime * 0.5 if autoRotate, params.lightPosition is recomputed
AnimateBegin ==
    /\ dmPc = "idle"
    /\ dmPc' = "animate"
    /\ \E angle \in RotationAngles :
        /\ IF dmAutoRotate THEN FGe(angle, dmRotationY) ELSE angle = dmRotationY
        /\ dmRotationY' = angle
        /\ dmLightPosition' = getRotatedLightPosition(dmBase, angle, dmRotationX)
    /\ dmShadow' = [dmShadow EXCEPT !.drawn = FALSE]
    /\ dmMain' = [dmMain EXCEPT !.drawn = FALSE]
    /\ dmAccess' = {}
    /\ UNCHANGED <<dmReady, dmFramebuffer, dmBase, dmRotationX, dmAutoRotate>>
    /\ UNCHANGED <<glsl, smVars, pcfVars, brdfVars, lightVars, areaVars, colorVars, appVars, loopVars, cameraVars, paramVars, pickVars, renderVars, rotateVars>>

\* renderShadowMap up to its draw call: the early return, or the bind of
\* the shadow framebuffer, the clear and the upload of uLightSpaceMatrix
ShadowMapBegin ==
    /\ dmPc = "animate"
    /\ IF dmReady
       THEN /\ dmPc' = "depth"
            /\ dmFramebuffer' = "shadow"
            /\ dmShadow' = [drawn |-> FALSE,
                            lightPosition |-> dmLightPosition,
                            lightSpaceMatrix |-> getLightSpaceMatrix(dmLightPosition)]
       ELSE /\ dmPc' = "render"
            /\ UNCHANGED <<dmFramebuffer, dmShadow>>
    /\ UNCHANGED <<dmReady, dmBase, dmRotationY, dmRotationX, dmAutoRotate,
                   dmLightPosition, dmMain, dmAccess>>
    /\ UNCHANGED <<glsl, smVars, pcfVars, brdfVars, lightVars, areaVars, colorVars, appVars, loopVars, cameraVars, paramVars, pickVars, renderVars, rotateVars>>

\* the draw call of renderShadowMap
ShadowMapDraw ==
    /\ dmPc = "depth"
    /\ dmPc' = "depthDrawn"
    /\ dmAccess' = drawElements(dmFramebuffer, FALSE)
    /\ dmShadow' = [dmShadow EXCEPT !.drawn = TRUE]
    /\ UNCHANGED <<dmReady, dmFramebuffer, dmBase, dmRotationY, dmRotationX,
                   dmAutoRotate, dmLightPosition, dmMain>>
    /\ UNCHANGED <<glsl, smVars, pcfVars, brdfVars, lightVars, areaVars, colorVars, appVars, loopVars, cameraVars, paramVars, pickVars, renderVars, rotateVars>>

\* the end of renderShadowMap
ShadowMapEnd ==
    /\ dmPc = "depthDrawn"
    /\ dmPc' = "render"
    /\ dmFramebuffer' = renderShadowMap_exit(dmFramebuffer)
    /\ dmAccess' = {}
    /\ UNCHANGED <<dmReady, dmBase, dmRotationY, dmRotationX, dmAutoRotate,
                   dmLightPosition, dmShadow, dmMain>>
    /\ UNCHANGED <<glsl, smVars, pcfVars, brdfVars, lightVars, areaVars, colorVars, appVars, loopVars, cameraVars, paramVars, pickVars, renderVars, rotateVars>>

\* render: the uniforms of the main program and its draw calls, which
\* sample uShadowMap
RenderMain ==
    /\ dmPc = "render"
    /\ dmPc' = "main"
    /\ dmMain' = [drawn |-> TRUE,
                  lightPosition |-> dmLightPosition,
                  lightSpaceMatrix |-> getLightSpaceMatrix(dmLightPosition)]
    /\ dmAccess' = drawElements(dmFramebuffer, TRUE)
    /\ UNCHANGED <<dmReady, dmFramebuffer, dmBase, dmRotationY, dmRotationX,
                   dmAutoRotate, dmLightPosition, dmShadow>>
    /\ UNCHANGED <<glsl, smVars, pcfVars, brdfVars, lightVars, areaVars, colorVars, appVars, loopVars, cameraVars, paramVars, pickVars, renderVars, rotateVars>>

\* the rest of animate: renderPreview on the other context and the request
\* of the next frame
AnimateEnd ==
    /\ dmPc = "main"
    /\ dmPc' = "idle"
    /\ dmAccess' = {}
    /\ UNCHANGED <<dmReady, dmFramebuffer, dmBase, dmRotationY, dmRotationX,
                   dmAutoRotate, dmLightPosition, dmShadow, dmMain>>
    /\ UNCHANGED <<glsl, smVars, pcfVars, brdfVars, lightVars, areaVars, colorVars, appVars, loopVars, cameraVars, paramVars, pickVars, renderVars, rotateVars>>

\* onParamsChange after an input event of a light slider or of the
\* autoRotate checkbox, between two frames
OnParamsChange ==
    /\ dmPc = "idle"
    /\ \E lp \in DepthLightPositions, auto \in BOOLEAN :
        /\ dmBase' = lp
        /\ dmAutoRotate' = auto
    /\ UNCHANGED <<dmPc, dmReady, dmFramebuffer, dmRotationY, dmRotationX,
                   dmLightPosition, dmShadow, dmMain, dmAccess>>
    /\ UNCHANGED <<glsl, smVars, pcfVars, brdfVars, lightVars, areaVars, colorVars, appVars, loopVars, cameraVars, paramVars, pickVars, renderVars, rotateVars>>

\* mousemove while dragging on the canvas, between two frames
OnMouseDrag ==
    /\ dmPc = "idle"
    /\ \E ry \in RotationAngles, rx \in RotationAngles :
        /\ dmRotationY' = ry
        /\ dmRotationX' = rx
    /\ UNCHANGED <<dmPc, dmReady, dmFramebuffer, dmBase, dmAutoRotate,
                   dmLightPosition, dmShadow, dmMain, dmAccess>>
    /\ UNCHANGED <<glsl, smVars, pcfVars, brdfVars, lightVars, areaVars, colorVars, appVars, loopVars, cameraVars, paramVars, pickVars, renderVars, rotateVars>>

(***************************************************************************)
(* Start-up and frame loop: the shader-program builders, the script        *)
(* js/main.js, the constructor of CookTorranceApp and the animation frame  *)
(* callbacks. A WebGL context is the number of shader objects and of       *)
(* program objects that were created and not deleted                       *)
(***************************************************************************)
NoObjects == [shaders |-> 0, programs |-> 0]
gl_createShader(gl) == [gl EXCEPT !.shaders = @ + 1]
gl_deleteShader(gl) == [gl EXCEPT !.shaders = @ - 1]
gl_createProgram(gl) == [gl EXCEPT !.programs = @ + 1]
gl_deleteProgram(gl) == [gl EXCEPT !.programs = @ - 1]

\* COMPILE_STATUS of the two shaders and LINK_STATUS of the program, as the
\* driver reports them
BuildOutcomes == [vertex : BOOLEAN, fragment : BOOLEAN, link : BOOLEAN]

\* compileShader of webgl-utils.js: null (shader FALSE) after a failed compile
compileShader(gl, status) ==
    IF status
    THEN [gl |-> gl_createShader(gl), shader |-> TRUE]
    ELSE [gl |-> gl_deleteShader(gl_createShader(gl)), shader |-> FALSE]

createShaderProgram_link(gl, link) ==
    IF ~link
    THEN [gl |-> gl_deleteShader(gl_deleteShader(gl_deleteProgram(gl_createProgram(gl)))),
          program |-> FALSE]
    ELSE [gl |-> gl_deleteShader(gl_deleteShader(gl_createProgram(gl))),
          program |-> TRUE]

createShaderProgram_fragment(fragmentShader, st) ==
    IF ~fragmentShader.shader
    THEN [gl |-> gl_deleteShader(fragmentShader.gl), program |-> FALSE]
    ELSE createShaderProgram_link(fragmentShader.gl, st.link)

createShaderProgram_vertex(vertexShader, st) ==
    IF ~vertexShader.shader
    THEN [gl |-> vertexShader.gl, program |-> FALSE]
    ELSE createShaderProgram_fragment(compileShader(vertexShader.gl, st.fragment), st)

\* createShaderProgram of webgl-utils.js: null (program FALSE) on a failure
createShaderProgram(gl, st) ==
    createShaderProgram_vertex(compileShader(gl, st.vertex), st)

\* compileShader of the shader module: throws after a failed compile
compileShaderOrThrow(gl, status) ==
    IF status
    THEN [gl |-> gl_createShader(gl), thrown |-> FALSE]
    ELSE [gl |-> gl_deleteShader(gl_createShader(gl)), thrown |-> TRUE]

createProgram_link(gl, link) ==
    IF ~link
    THEN [gl |-> gl_deleteProgram(gl_createProgram(gl)), program |-> FALSE,
          thrown |-> TRUE]
    ELSE [gl |-> gl_deleteShader(gl_deleteShader(gl_createProgram(gl))),
          program |-> TRUE, thrown |-> FALSE]

createProgram_fragment(fragmentShaderObj, st) ==
    IF fragmentShaderObj.thrown
    THEN [gl |-> fragmentShaderObj.gl, program |-> FALSE, thrown |-> TRUE]
    ELSE createProgram_link(fragmentShaderObj.gl, st.link)

createProgram_vertex(vertexShaderObj, st) ==
    IF vertexShaderObj.thrown
    THEN [gl |-> vertexShaderObj.gl, program |-> FALSE, thrown |-> TRUE]
    ELSE createProgram_fragment(compileShaderOrThrow(vertexShaderObj.gl, st.fragment), st)

\* createProgram of the shader module: throws on a failure
createProgram(gl, st) ==
    createProgram_vertex(compileShaderOrThrow(gl, st.vertex), st)

callBuilder(builder, before, result) ==
    [builder |-> builder, before |-> before, after |-> result.gl,
     program |-> result.program]

\* frames a run is followed for
MaxFrames == 3

\* the frame callbacks have no try statement: an exception raised by a call
\* they make leaves them at once
FrameOutcomes == {"completed", "threw"}

\* callbacks pending after a frame callback ran: requestAnimationFrame is
\* the last statement of render of main.js and of animate
pendingAfterFrame(pending, outcome) ==
    (pending - 1) + (IF outcome = "completed" THEN 1 ELSE 0)

\* mutant: renderShadowMap goes on without the shadow program
renderShadowMap_returnsNever(shadowProgram, shadowFramebuffer) == FALSE

\* if (!this.shadowProgram || !this.shadowFramebuffer) return
renderShadowMap_returns(shadowProgram, shadowFramebuffer) ==
    ~shadowProgram \/ ~shadowFramebuffer

\* what a call of animate does before it returns or throws: the depth pass
\* binds the shadow framebuffer and draws unless renderShadowMap returns
animateFrame(shadowProgram, outcome) ==
    [outcome |-> outcome,
     shadowBound |-> ~renderShadowMap_returns(shadowProgram, TRUE),
     shadowDrawn |-> ~renderShadowMap_returns(shadowProgram, TRUE)]

NoAnimateFrame == [outcome |-> "none", shadowBound |-> FALSE, shadowDrawn |-> FALSE]

\* the page is loaded and neither application has run
InitLoop ==
    /\ mjApp = [pc |-> "context", context |-> FALSE, gl |-> NoObjects, built |-> 0,
                pending |-> 0, frames |-> 0, lastFrame |-> "none"]
    /\ ctApp = [pc |-> "context", context |-> FALSE, program |-> FALSE,
                previewContext |-> FALSE, previewGl |-> NoObjects,
                shadowProgram |-> FALSE, gl |-> NoObjects,
                pending |-> 0, frames |-> 0, lastFrame |-> NoAnimateFrame]
    /\ lastBuild = [builder |-> "none", before |-> NoObjects, after |-> NoObjects,
                    program |-> FALSE]

\* main.js: canvas.getContext('webgl2'), and the throw if there is none
MainGetContext ==
    /\ mjApp.pc = "context"
    /\ \E gl \in BOOLEAN :
        mjApp' = [mjApp EXCEPT !.context = gl,
                               !.pc = IF gl THEN "programs" ELSE "failed"]
    /\ UNCHANGED <<ctApp, lastBuild>>
    /\ UNCHANGED <<glsl, smVars, pcfVars, brdfVars, lightVars, areaVars, colorVars, appVars, dmVars, cameraVars, paramVars, pickVars, renderVars, rotateVars>>

\* main.js: one of the four calls of createProgram; a throw ends the script
MainCreateProgram ==
    /\ mjApp.pc = "programs"
    /\ \E st \in BuildOutcomes :
        /\ lastBuild' = callBuilder("createProgram", mjApp.gl, createProgram(mjApp.gl, st))
        /\ mjApp' = [mjApp EXCEPT
                 !.gl = createProgram(mjApp.gl, st).gl,
                 !.built = IF createProgram(mjApp.gl, st).thrown THEN @ ELSE @ + 1,
                 !.pc = IF createProgram(mjApp.gl, st).thrown THEN "failed"
                        ELSE IF mjApp.built = 3 THEN "modules" ELSE "programs"]
    /\ UNCHANGED ctApp
    /\ UNCHANGED <<glsl, smVars, pcfVars, brdfVars, lightVars, areaVars, colorVars, appVars, dmVars, cameraVars, paramVars, pickVars, renderVars, rotateVars>>

\* main.js from the construction of the modules to the end of the script:
\* requestAnimationFrame(render) is called once
MainStart ==
    /\ mjApp.pc = "modules"
    /\ mjApp' = [mjApp EXCEPT !.pc = "running", !.pending = @ + 1]
    /\ UNCHANGED <<ctApp, lastBuild>>
    /\ UNCHANGED <<glsl, smVars, pcfVars, brdfVars, lightVars, areaVars, colorVars, appVars, dmVars, cameraVars, paramVars, pickVars, renderVars, rotateVars>>

\* a pending callback render of main.js runs
MainRender ==
    /\ mjApp.pc = "running"
    /\ mjApp.pending > 0
    /\ mjApp.frames < MaxFrames
    /\ \E outcome \in FrameOutcomes :
        mjApp' = [mjApp EXCEPT !.pending = pendingAfterFrame(@, outcome),
                               !.frames = @ + 1,
                               !.lastFrame = outcome]
    /\ UNCHANGED <<ctApp, lastBuild>>
    /\ UNCHANGED <<glsl, smVars, pcfVars, brdfVars, lightVars, areaVars, colorVars, appVars, dmVars, cameraVars, paramVars, pickVars, renderVars, rotateVars>>

\* the constructor: initWebGL of the two canvases, and the return if the
\* main canvas has no context
CtGetContext ==
    /\ ctApp.pc = "context"
    /\ \E gl \in BOOLEAN, previewGL \in BOOLEAN :
        ctApp' = [ctApp EXCEPT !.context = gl,
                               !.previewContext = gl /\ previewGL,
                               !.pc = IF gl THEN "program" ELSE "returned"]
    /\ UNCHANGED <<mjApp, lastBuild>>
    /\ UNCHANGED <<glsl, smVars, pcfVars, brdfVars, lightVars, areaVars, colorVars, appVars, dmVars, cameraVars, paramVars, pickVars, renderVars, rotateVars>>

\* the constructor: this.program = createShaderProgram(...), and the return
\* if it is null
CtCreateProgram ==
    /\ ctApp.pc = "program"
    /\ \E st \in BuildOutcomes :
        /\ lastBuild' = callBuilder("createShaderProgram", ctApp.gl,
                                    createShaderProgram(ctApp.gl, st))
        /\ ctApp' = [ctApp EXCEPT
                 !.gl = createShaderProgram(ctApp.gl, st).gl,
                 !.program = createShaderProgram(ctApp.gl, st).program,
                 !.pc = IF createShaderProgram(ctApp.gl, st).program
                        THEN "previewProgram" ELSE "returned"]
    /\ UNCHANGED mjApp
    /\ UNCHANGED <<glsl, smVars, pcfVars, brdfVars, lightVars, areaVars, colorVars, appVars, dmVars, cameraVars, paramVars, pickVars, renderVars, rotateVars>>

\* the constructor: the preview program, if there is a preview context
CtCreatePreviewProgram ==
    /\ ctApp.pc = "previewProgram"
    /\ IF ctApp.previewContext
       THEN \E st \in BuildOutcomes :
               /\ lastBuild' = callBuilder("createShaderProgram", ctApp.previewGl,
                                           createShaderProgram(ctApp.previewGl, st))
               /\ ctApp' = [ctApp EXCEPT
                        !.previewGl = createShaderProgram(ctApp.previewGl, st).gl,
                        !.pc = "shadowProgram"]
       ELSE /\ ctApp' = [ctApp EXCEPT !.pc = "shadowProgram"]
            /\ UNCHANGED lastBuild
    /\ UNCHANGED mjApp
    /\ UNCHANGED <<glsl, smVars, pcfVars, brdfVars, lightVars, areaVars, colorVars, appVars, dmVars, cameraVars, paramVars, pickVars, renderVars, rotateVars>>

\* the constructor: this.shadowProgram = createShaderProgram(...); the
\* constructor goes on if it is null
CtCreateShadowProgram ==
    /\ ctApp.pc = "shadowProgram"
    /\ \E st \in BuildOutcomes :
        /\ lastBuild' = callBuilder("createShaderProgram", ctApp.gl,
                                    createShaderProgram(ctApp.gl, st))
        /\ ctApp' = [ctApp EXCEPT
                 !.gl = createShaderProgram(ctApp.gl, st).gl,
                 !.shadowProgram = createShaderProgram(ctApp.gl, st).program,
                 !.pc = "init"]
    /\ UNCHANGED mjApp
    /\ UNCHANGED <<glsl, smVars, pcfVars, brdfVars, lightVars, areaVars, colorVars, appVars, dmVars, cameraVars, paramVars, pickVars, renderVars, rotateVars>>

\* the rest of the constructor, which ends with this.animate(): the first
\* frame is drawn by the constructor itself
CtStart ==
    /\ ctApp.pc = "init"
    /\ \E outcome \in FrameOutcomes :
        ctApp' = [ctApp EXCEPT !.pc = "running",
                               !.pending = pendingAfterFrame(@ + 1, outcome),
                               !.frames = @ + 1,
                               !.lastFrame = animateFrame(ctApp.shadowProgram, outcome)]
    /\ UNCHANGED <<mjApp, lastBuild>>
    /\ UNCHANGED <<glsl, smVars, pcfVars, brdfVars, lightVars, areaVars, colorVars, appVars, dmVars, cameraVars, paramVars, pickVars, renderVars, rotateVars>>

\* a pending callback (time) => this.animate(time) runs
CtAnimate ==
    /\ ctApp.pc = "running"
    /\ ctApp.pending > 0
    /\ ctApp.frames < MaxFrames
    /\ \E outcome \in FrameOutcomes :
        ctApp' = [ctApp EXCEPT !.pending = pendingAfterFrame(@, outcome),
                               !.frames = @ + 1,
                               !.lastFrame = animateFrame(ctApp.shadowProgram, outcome)]
    /\ UNCHANGED <<mjApp, lastBuild>>
    /\ UNCHANGED <<glsl, smVars, pcfVars, brdfVars, lightVars, areaVars, colorVars, appVars, dmVars, cameraVars, paramVars, pickVars, renderVars, rotateVars>>

(***************************************************************************)
(* Camera: the mousedown, mouseup, mouseleave, mousemove and wheel         *)
(* handlers of the orbit camera                                            *)
(***************************************************************************)
\* Math.max and Math.min: NaN if an argument is NaN
Math_max(x, y) == IF IsNaN(x) \/ IsNaN(y) THEN NaN ELSE IF FLt(x, y) THEN y ELSE x
Math_min(x, y) == IF IsNaN(x) \/ IsNaN(y) THEN NaN ELSE IF FLt(y, x) THEN y ELSE x

\* mutant: clamp without the upper bound
clampBelow(value, min, max) == Math_max(value, min)

\* clamp = (value, min, max) => Math.min(Math.max(value, min), max)
clamp(value, min, max) == Math_min(Math_max(value, min), max)

\* Math.sin by its series, for the yaw angles the events below produce
SinStep(x2, d, rest) == FSub(One, FMul(FDiv(x2, FromInt(d)), rest))
FSin(x) == FMul(x, SinStep(FMul(x, x), 6, SinStep(FMul(x, x), 20, SinStep(FMul(x, x), 42, One))))

PitchMin == FromRatio(-12, 10)
PitchMax == FromRatio(12, 10)
DistanceMin == FromRatio(12, 10)
DistanceMax == FromInt(12)
RotateSpeed == FromRatio(5, 1000)
PanSpeed == FromRatio(2, 1000)
ZoomSpeed == FromRatio(1, 1000)

\* events a run is followed for
MaxCameraEvents == 4
\* clientX, clientY of the mouse events
MousePositions == {<<0, 0>>, <<200, 400>>}
\* e.button: left, middle, right
MouseButtons == {0, 1, 2}
\* e.deltaY of the wheel events
WheelDeltas == {-1000, 100, 4000}

NoCameraEvent == [type |-> "none"]

InitCamera ==
    /\ camera = [distance |-> FromInt(3), yaw |-> FromRatio(6, 10),
                 pitch |-> FromRatio(35, 100), pan |-> <<Zero, Zero, Zero>>,
                 isRotating |-> FALSE, isPanning |-> FALSE, lastMousePos |-> <<0, 0>>]
    /\ cameraEvent = NoCameraEvent
    /\ cameraEvents = 0

handled(type) == [type |-> type, before |-> camera]

CameraMouseDown ==
    /\ cameraEvents < MaxCameraEvents
    /\ \E button \in MouseButtons, pos \in MousePositions :
        camera' = [camera EXCEPT
            !.isRotating = IF button = 0 THEN TRUE ELSE @,
            !.isPanning = IF button = 2 THEN TRUE ELSE @,
            !.lastMousePos = pos]
    /\ cameraEvent' = handled("mousedown")
    /\ cameraEvents' = cameraEvents + 1
    /\ UNCHANGED <<glsl, smVars, pcfVars, brdfVars, lightVars, areaVars, colorVars, appVars, dmVars, loopVars, paramVars, pickVars, renderVars, rotateVars>>

CameraMouseUp ==
    /\ cameraEvents < MaxCameraEvents
    /\ camera' = [camera EXCEPT !.isRotating = FALSE, !.isPanning = FALSE]
    /\ cameraEvent' = handled("mouseup")
    /\ cameraEvents' = cameraEvents + 1
    /\ UNCHANGED <<glsl, smVars, pcfVars, brdfVars, lightVars, areaVars, colorVars, appVars, dmVars, loopVars, paramVars, pickVars, renderVars, rotateVars>>

CameraMouseLeave ==
    /\ cameraEvents < MaxCameraEvents
    /\ camera' = [camera EXCEPT !.isRotating = FALSE, !.isPanning = FALSE]
    /\ cameraEvent' = handled("mouseleave")
    /\ cameraEvents' = cameraEvents + 1
    /\ UNCHANGED <<glsl, smVars, pcfVars, brdfVars, lightVars, areaVars, colorVars, appVars, dmVars, loopVars, paramVars, pickVars, renderVars, rotateVars>>

\* the rotation branch of the mousemove handler
mousemove_rotate(cam, dx, dy) ==
    IF cam.isRotating
    THEN [cam EXCEPT !.yaw = FAdd(@, FMul(FromInt(dx), RotateSpeed)),
                     !.pitch = clamp(FAdd(@, FMul(FromInt(dy), RotateSpeed)),
                                     PitchMin, PitchMax)]
    ELSE cam

mousemove_panBy(cam, dx, dy, panScale) ==
    [cam EXCEPT !.pan =
        vec3_add(@, vec3_add(vec3_scale(<<FCos(cam.yaw), Zero, FNeg(FSin(cam.yaw))>>,
                                        FMul(FNeg(FromInt(dx)), panScale)),
                             vec3_scale(<<Zero, One, Zero>>, FMul(FromInt(dy), panScale))))]

\* the pan branch of the mousemove handler
mousemove_pan(cam, dx, dy) ==
    IF cam.isPanning
    THEN mousemove_panBy(cam, dx, dy, FMul(PanSpeed, cam.distance))
    ELSE cam

mousemove(cam, pos) ==
    [mousemove_pan(mousemove_rotate(cam, pos[1] - cam.lastMousePos[1],
                                    pos[2] - cam.lastMousePos[2]),
                   pos[1] - cam.lastMousePos[1], pos[2] - cam.lastMousePos[2])
        EXCEPT !.lastMousePos = pos]

CameraMouseMove ==
    /\ cameraEvents < MaxCameraEvents
    /\ \E pos \in MousePositions : camera' = mousemove(camera, pos)
    /\ cameraEvent' = handled("mousemove")
    /\ cameraEvents' = cameraEvents + 1
    /\ UNCHANGED <<glsl, smVars, pcfVars, brdfVars, lightVars, areaVars, colorVars, appVars, dmVars, loopVars, paramVars, pickVars, renderVars, rotateVars>>

wheel(cam, deltaY) ==
    [cam EXCEPT !.distance =
        clamp(FMul(@, FAdd(One, FMul(FromInt(deltaY), ZoomSpeed))),
              DistanceMin, DistanceMax)]

CameraWheel ==
    /\ cameraEvents < MaxCameraEvents
    /\ \E deltaY \in WheelDeltas : camera' = wheel(camera, deltaY)
    /\ cameraEvent' = handled("wheel")
    /\ cameraEvents' = cameraEvents + 1
    /\ UNCHANGED <<glsl, smVars, pcfVars, brdfVars, lightVars, areaVars, colorVars, appVars, dmVars, loopVars, paramVars, pickVars, renderVars, rotateVars>>

(***************************************************************************)
(* Controls of the depth-map application: the input listeners of the       *)
(* sliders and checkboxes of UIController, and onParamsChange              *)
(***************************************************************************)
DigitChars == <<"0", "1", "2", "3", "4", "5", "6", "7", "8", "9">>
IsDigit(c) == \E d \in 1..10 : DigitChars[d] = c
DigitOf(c) == (CHOOSE d \in 1..10 : DigitChars[d] = c) - 1

\* the number of digits of s from position i on
RECURSIVE DigitRun(_, _)
DigitRun(s, i) ==
    IF i <= Len(s) /\ IsDigit(s[i]) THEN 1 + DigitRun(s, i + 1) ELSE 0

\* the number the n digits of s from position i on spell, after acc
RECURSIVE DigitsValue(_, _, _, _)
DigitsValue(s, i, n, acc) ==
    IF n = 0 THEN acc ELSE DigitsValue(s, i + 1, n - 1, 10 * acc + DigitOf(s[i]))

RECURSIVE Pow10(_)
Pow10(n) == IF n = 0 THEN 1 ELSE 10 * Pow10(n - 1)

parseFloat_number(s, negative, start, ni, nf) ==
    IF ni + nf = 0 THEN NaN
    ELSE FromRatio((IF negative THEN -1 ELSE 1) *
                       DigitsValue(s, start + ni + 1, nf, DigitsValue(s, start, ni, 0)),
                   Pow10(nf))

parseFloat_fraction(s, negative, start, ni) ==
    parseFloat_number(s, negative, start, ni,
        IF start + ni <= Len(s) /\ s[start + ni] = "." THEN DigitRun(s, start + ni + 1) ELSE 0)

parseFloat_sign(s, negative, start) ==
    parseFloat_fraction(s, negative, start, DigitRun(s, start))

\* parseFloat of a string given by its characters: an optional sign, digits,
\* an optional fraction; NaN if there is no digit
parseFloat(s) ==
    IF Len(s) >= 1 /\ s[1] \in {"-", "+"}
    THEN parseFloat_sign(s, s[1] = "-", 2)
    ELSE parseFloat_sign(s, FALSE, 1)

\* the values of the slider elements
SliderValues ==
    { <<"0">>, <<"0", ".", "0", "0">>, <<"-", "0">>, <<>>,
      <<"0", ".", "2", "5">>, <<"1">>, <<"2", ".", "5">> }

Sliders == {"spotAngle", "spotSoftness", "areaWidth", "areaHeight"}
Checkboxes == {"autoRotate", "shadowEnabled"}

\* the value of a property an object does not have
undefined == <<>>

\* mutant: only a missing value is replaced
logicalOrMissing(a, b) == IF a = undefined THEN b ELSE a

\* a || b for a number or undefined a: b if a is undefined, NaN or zero
logicalOr(a, b) == IF a = undefined \/ IsNaN(a) \/ a = Zero THEN b ELSE a

defaultParams ==
    [spotAngle |-> FromRatio(5, 10), spotSoftness |-> FromRatio(1, 10),
     areaWidth |-> One, areaHeight |-> One, autoRotate |-> TRUE, shadowEnabled |-> TRUE]

\* the fields of this.params that onParamsChange guards, and the two
\* checkboxes (the params of UIController always have shadowEnabled)
onParamsChange(params) ==
    [spotAngle |-> logicalOr(params.spotAngle, FromRatio(5, 10)),
     spotSoftness |-> logicalOr(params.spotSoftness, FromRatio(1, 10)),
     areaSize |-> <<logicalOr(params.areaWidth, One), logicalOr(params.areaHeight, One)>>,
     autoRotate |-> params.autoRotate,
     shadowEnabled |-> params.shadowEnabled]

\* after the constructors: this.onParamsChange(this.uiController.getParams())
InitParams ==
    /\ uiParams = defaultParams
    /\ ctParams = onParamsChange(defaultParams)

\* the input listener of a slider
ParamsSliderInput ==
    /\ \E param \in Sliders, value \in SliderValues :
        /\ uiParams' = [uiParams EXCEPT ![param] = parseFloat(value)]
        /\ ctParams' = onParamsChange([uiParams EXCEPT ![param] = parseFloat(value)])
    /\ UNCHANGED <<glsl, smVars, pcfVars, brdfVars, lightVars, areaVars, colorVars, appVars, dmVars, loopVars, cameraVars, pickVars, renderVars, rotateVars>>

\* the change listener of a checkbox
ParamsCheckboxChange ==
    /\ \E param \in Checkboxes, checked \in BOOLEAN :
        /\ uiParams' = [uiParams EXCEPT ![param] = checked]
        /\ ctParams' = onParamsChange([uiParams EXCEPT ![param] = checked])
    /\ UNCHANGED <<glsl, smVars, pcfVars, brdfVars, lightVars, areaVars, colorVars, appVars, dmVars, loopVars, cameraVars, pickVars, renderVars, rotateVars>>

(***************************************************************************)
(* Mouse picking: the ray tests of js/intersection.js, the hover handlers  *)
(* of js/main.js, the object type selector and the tooltip                 *)
(***************************************************************************)
\* null as the result of a ray test and as the value of hoverInfo
null == [point |-> <<>>, normal |-> <<>>]

Math_abs(x) == FAbs(x)
Math_sign(x) ==
    IF IsNaN(x) THEN NaN ELSE IF x = Zero THEN Zero
    ELSE IF FLt(x, Zero) THEN FNeg(One) ELSE One

intersectSphere_point(rayOrigin, sphereCenter, point) ==
    [point |-> point, normal |-> vec3_normalize(vec3_sub(point, sphereCenter))]

intersectSphere_t(rayOrigin, rayDir, sphereCenter, t) ==
    IF FLt(t, Zero) THEN null
    ELSE intersectSphere_point(rayOrigin, sphereCenter,
                               vec3_add(rayOrigin, vec3_scale(rayDir, t)))

intersectSphere_discriminant(rayOrigin, rayDir, sphereCenter, a, b, discriminant) ==
    IF FLt(discriminant, Zero) THEN null
    ELSE intersectSphere_t(rayOrigin, rayDir, sphereCenter,
             FDiv(FSub(FNeg(b), FSqrt(discriminant)), FMul(FromInt(2), a)))

intersectSphere_abc(rayOrigin, rayDir, sphereCenter, a, b, c) ==
    intersectSphere_discriminant(rayOrigin, rayDir, sphereCenter, a, b,
        FSub(FMul(b, b), FMul(FMul(FromInt(4), a), c)))

intersectSphere_oc(rayOrigin, rayDir, sphereCenter, sphereRadius, oc) ==
    intersectSphere_abc(rayOrigin, rayDir, sphereCenter,
        FDot3(rayDir, rayDir),
        FMul(FromInt(2), FDot3(rayDir, oc)),
        FSub(FDot3(oc, oc), FMul(sphereRadius, sphereRadius)))

intersectSphere(rayOrigin, rayDir, sphereCenter, sphereRadius) ==
    intersectSphere_oc(rayOrigin, rayDir, sphereCenter, sphereRadius,
                       vec3_sub(rayOrigin, sphereCenter))

\* the entry and exit of a slab, swapped if needed
slab(t0, t1) == IF FGt(t0, t1) THEN <<t1, t0>> ELSE <<t0, t1>>
slabOf(min, max, rayOrigin, rayDir, i) ==
    slab(FDiv(FSub(min[i], rayOrigin[i]), rayDir[i]),
         FDiv(FSub(max[i], rayOrigin[i]), rayDir[i]))

intersectCube_normal(point, local, absLocal, maxAxis) ==
    [point |-> point,
     normal |-> IF maxAxis = absLocal[1] THEN <<Math_sign(local[1]), Zero, Zero>>
                ELSE IF maxAxis = absLocal[2] THEN <<Zero, Math_sign(local[2]), Zero>>
                ELSE <<Zero, Zero, Math_sign(local[3])>>]

intersectCube_face(point, local, absLocal) ==
    intersectCube_normal(point, local, absLocal,
        Math_max(Math_max(absLocal[1], absLocal[2]), absLocal[3]))

intersectCube_local(point, local) ==
    intersectCube_face(point, local,
        <<Math_abs(local[1]), Math_abs(local[2]), Math_abs(local[3])>>)

intersectCube_tmin(rayOrigin, rayDir, boxCenter, tmin) ==
    IF FLt(tmin, Zero) THEN null
    ELSE CHOOSE out \in {intersectCube_local(point, vec3_sub(point, boxCenter)) :
                            point \in {vec3_add(rayOrigin, vec3_scale(rayDir, tmin))}} : TRUE

intersectCube_z(rayOrigin, rayDir, boxCenter, tmin, tmax, tz) ==
    IF FGt(tmin, tz[2]) \/ FGt(tz[1], tmax) THEN null
    ELSE intersectCube_tmin(rayOrigin, rayDir, boxCenter,
                            IF FGt(tz[1], tmin) THEN tz[1] ELSE tmin)

intersectCube_xy(rayOrigin, rayDir, boxCenter, tx, ty, tz) ==
    IF FGt(tx[1], ty[2]) \/ FGt(ty[1], tx[2]) THEN null
    ELSE intersectCube_z(rayOrigin, rayDir, boxCenter,
                         IF FGt(ty[1], tx[1]) THEN ty[1] ELSE tx[1],
                         IF FLt(ty[2], tx[2]) THEN ty[2] ELSE tx[2], tz)

intersectCube_slabs(rayOrigin, rayDir, boxCenter, min, max) ==
    intersectCube_xy(rayOrigin, rayDir, boxCenter,
                     slabOf(min, max, rayOrigin, rayDir, 1),
                     slabOf(min, max, rayOrigin, rayDir, 2),
                     slabOf(min, max, rayOrigin, rayDir, 3))

intersectCube(rayOrigin, rayDir, boxCenter, boxHalfSize) ==
    intersectCube_slabs(rayOrigin, rayDir, boxCenter,
        vec3_sub(boxCenter, <<boxHalfSize, boxHalfSize, boxHalfSize>>),
        vec3_add(boxCenter, <<boxHalfSize, boxHalfSize, boxHalfSize>>))

\* the default arguments objectCenter and objectSize of intersectObject
ObjectCenter == <<Zero, Zero, Zero>>
ObjectSize == FromRatio(6, 10)

\* mutant: the cube is tested only for the value 'cube'
intersectObjectCubeOnly(rayOrigin, rayDir, objectType) ==
    IF objectType = "cube"
    THEN intersectCube(rayOrigin, rayDir, ObjectCenter, ObjectSize)
    ELSE intersectSphere(rayOrigin, rayDir, ObjectCenter, ObjectSize)

intersectObject(rayOrigin, rayDir, objectType) ==
    IF objectType = "sphere"
    THEN intersectSphere(rayOrigin, rayDir, ObjectCenter, ObjectSize)
    ELSE intersectCube(rayOrigin, rayDir, ObjectCenter, ObjectSize)

\* the values of the options of the object type selector
ObjectTypes == {"sphere", "cube", "torus"}

\* the rays of the mouse positions: from the camera on the z axis through
\* the centre of the object, through a corner region of the cube that is
\* outside the sphere, and past the object
PickOrigin == <<Zero, Zero, FromInt(3)>>
PickDirections ==
    { <<Zero, Zero, FNeg(One)>>,
      vec3_normalize(<<FromRatio(1, 2), FromRatio(1, 2), FromRatio(-24, 10)>>),
      vec3_normalize(<<FromInt(1), Zero, FNeg(One)>>) }

\* uiManager.onObjectTypeChange of main.js
onObjectTypeChange(type) == IF type = "sphere" THEN "geoSphere" ELSE "geoCube"

\* mutant: the tooltip is shown after every mousemove
mousemoveShown(hit) == [tooltip |-> "block", hoverInfo |-> hit]

\* the two branches of the mousemove handler: tooltipManager.show and
\* hoverInfo = {...} after a hit, tooltipManager.hide and hoverInfo = null
\* after a miss
mousemoveHover(hit) ==
    [tooltip |-> IF hit # null THEN "block" ELSE "none", hoverInfo |-> hit]

NoPick == [event |-> "none", objectType |-> "", rayDir |-> <<>>, hit |-> null]
NoPickFrame == [drawn |-> FALSE, object |-> "", objectType |-> "",
                hoverInfo |-> null, debugVectors |-> FALSE]

\* after the script main.js: the tooltip is displayed as the style sheet of
\* the page says
InitPick ==
    /\ pickObjectType = "sphere"
    /\ pickActiveObject = "geoSphere"
    /\ pickHoverInfo = null
    /\ pickTooltip = "stylesheet"
    /\ pickLast = NoPick
    /\ pickFrame = NoPickFrame

\* change event of the object type selector
PickObjectTypeChange ==
    /\ \E value \in ObjectTypes :
        /\ pickObjectType' = value
        /\ pickActiveObject' = onObjectTypeChange(value)
    /\ UNCHANGED <<pickHoverInfo, pickTooltip, pickLast, pickFrame>>
    /\ UNCHANGED <<glsl, smVars, pcfVars, brdfVars, lightVars, areaVars, colorVars, appVars, dmVars, loopVars, cameraVars, paramVars, renderVars, rotateVars>>

\* the hover handler of mousemove on the canvas
PickMouseMove ==
    /\ \E rayDir \in PickDirections :
        /\ pickTooltip' = mousemoveHover(intersectObject(PickOrigin, rayDir, pickObjectType)).tooltip
        /\ pickHoverInfo' = mousemoveHover(intersectObject(PickOrigin, rayDir, pickObjectType)).hoverInfo
        /\ pickLast' = [event |-> "mousemove", objectType |-> pickObjectType,
                        rayDir |-> rayDir,
                        hit |-> intersectObject(PickOrigin, rayDir, pickObjectType)]
    /\ UNCHANGED <<pickObjectType, pickActiveObject, pickFrame>>
    /\ UNCHANGED <<glsl, smVars, pcfVars, brdfVars, lightVars, areaVars, colorVars, appVars, dmVars, loopVars, cameraVars, paramVars, renderVars, rotateVars>>

\* the handler of mouseleave on the canvas
PickMouseLeave ==
    /\ pickTooltip' = "none"
    /\ pickHoverInfo' = null
    /\ pickLast' = [NoPick EXCEPT !.event = "mouseleave"]
    /\ UNCHANGED <<pickObjectType, pickActiveObject, pickFrame>>
    /\ UNCHANGED <<glsl, smVars, pcfVars, brdfVars, lightVars, areaVars, colorVars, appVars, dmVars, loopVars, cameraVars, paramVars, renderVars, rotateVars>>

\* render of main.js: the object drawn, and the debug vectors if (hoverInfo)
PickRender ==
    /\ pickFrame' = [drawn |-> TRUE, object |-> pickActiveObject,
                     objectType |-> pickObjectType, hoverInfo |-> pickHoverInfo,
                     debugVectors |-> pickHoverInfo # null]
    /\ UNCHANGED <<pickObjectType, pickActiveObject, pickHoverInfo, pickTooltip, pickLast>>
    /\ UNCHANGED <<glsl, smVars, pcfVars, brdfVars, lightVars, areaVars, colorVars, appVars, dmVars, loopVars, cameraVars, paramVars, renderVars, rotateVars>>

(***************************************************************************)
(* Draw calls of Renderer.render, with the capabilities each draw call     *)
(* runs under, and the shadow option of both applications                  *)
(***************************************************************************)
gl_enable(gl, cap) == [gl EXCEPT ![cap] = TRUE]
gl_disable(gl, cap) == [gl EXCEPT ![cap] = FALSE]

\* gl.drawElements with the program in use and the vertex array bound
drawCall(program, vao, gl) ==
    [program |-> program, vao |-> vao,
     BLEND |-> gl.BLEND, POLYGON_OFFSET_FILL |-> gl.POLYGON_OFFSET_FILL]

drawn(frame, program, vao) ==
    [frame EXCEPT !.draws = Append(@, drawCall(program, vao, frame.gl))]

\* 1. the floor
render_floor(gl) == drawn([draws |-> <<>>, gl |-> gl], "main", "floor")

\* mutant: blending stays enabled after the shadow pass
render_shadowBlendLeft(frame, state) ==
    IF state.shadowEnabled
    THEN [draws |-> drawn([frame EXCEPT !.gl = gl_enable(gl_enable(@, "BLEND"),
                                                         "POLYGON_OFFSET_FILL")],
                          "shadow", "object").draws,
          gl |-> gl_disable(gl_enable(gl_enable(frame.gl, "BLEND"), "POLYGON_OFFSET_FILL"),
                            "POLYGON_OFFSET_FILL")]
    ELSE frame

\* 2. the planar shadow, if (state.shadowEnabled)
render_shadow(frame, state) ==
    IF state.shadowEnabled
    THEN [draws |-> drawn([frame EXCEPT !.gl = gl_enable(gl_enable(@, "BLEND"),
                                                         "POLYGON_OFFSET_FILL")],
                          "shadow", "object").draws,
          gl |-> gl_disable(gl_disable(gl_enable(gl_enable(frame.gl, "BLEND"),
                                                 "POLYGON_OFFSET_FILL"),
                                       "POLYGON_OFFSET_FILL"), "BLEND")]
    ELSE frame

\* 3. the object
render_object(frame) == drawn(frame, "main", "object")

\* 4. the light indicator
render_light(frame, state, lightSphere, lightProgram) ==
    IF state.lightType # 1 /\ lightSphere /\ lightProgram
    THEN drawn(frame, "light", "lightSphere")
    ELSE frame

\* Renderer.render(scene, state): the draw calls in order and the
\* capabilities it leaves
render(gl, state, lightSphere, lightProgram) ==
    render_light(render_object(render_shadow(render_floor(gl), state)),
                 state, lightSphere, lightProgram)

\* mutant: the main pass always enables the shadow test
uShadowEnabledOn(enabled) == 1

\* gl.uniform1i(uShadowEnabled, this.params.shadowEnabled ? 1 : 0)
uShadowEnabledOf(enabled) == IF enabled THEN 1 ELSE 0

\* light-space clip coordinates of the fragments that are enumerated, in
\* halves: in front of the occluder, behind it, beyond the far plane and
\* beside the map
RenderClips == {<<0, 0, -3>>, <<0, 0, 1>>, <<1, 0, 1>>, <<0, 0, 3>>, <<3, 0, 0>>}

\* depth textures: nothing drawn, and an occluder over the whole map
RenderTextures ==
    { [t \in Texels |-> One],
      DepthAfterDraw(<<0, 0>>, <<ShadowMapSize - 1, ShadowMapSize - 1>>, OccluderDepth) }

NoRenderFrame ==
    [drawn |-> FALSE, state |-> <<>>, lightSphere |-> FALSE, lightProgram |-> FALSE,
     draws |-> <<>>, shadowBefore |-> FALSE]
NoRenderFragment ==
    [done |-> FALSE, shadowEnabled |-> FALSE, uShadowEnabled |-> -1, clip |-> <<>>,
     tex |-> <<>>, shadow |-> Zero]

\* after the constructors: both capabilities are disabled in a new context
InitRender ==
    /\ rdPage = "none"
    /\ rdState = [shadowEnabled |-> TRUE, lightType |-> 0]
    /\ rdGl = [BLEND |-> FALSE, POLYGON_OFFSET_FILL |-> FALSE]
    /\ rdFrame = NoRenderFrame
    /\ rdShadowEnabled = TRUE
    /\ rdFragment = NoRenderFragment

\* one of the two pages is opened and its script has run
RenderOpenPage ==
    /\ rdPage = "none"
    /\ \E page \in {"planar", "depthMap"} : rdPage' = page
    /\ UNCHANGED <<rdState, rdGl, rdFrame, rdShadowEnabled, rdFragment>>
    /\ UNCHANGED <<glsl, smVars, pcfVars, brdfVars, lightVars, areaVars, colorVars, appVars, dmVars, loopVars, cameraVars, paramVars, pickVars, rotateVars>>

\* change event of the shadow checkbox of the planar-shadow application
RenderShadowChange ==
    /\ rdPage = "planar"
    /\ \E checked \in BOOLEAN : rdState' = [rdState EXCEPT !.shadowEnabled = checked]
    /\ UNCHANGED <<rdPage, rdGl, rdFrame, rdShadowEnabled, rdFragment>>
    /\ UNCHANGED <<glsl, smVars, pcfVars, brdfVars, lightVars, areaVars, colorVars, appVars, dmVars, loopVars, cameraVars, paramVars, pickVars, rotateVars>>

\* change event of its light type selector
RenderLightTypeChange ==
    /\ rdPage = "planar"
    /\ \E value \in 0 .. 3 : rdState' = [rdState EXCEPT !.lightType = value]
    /\ UNCHANGED <<rdPage, rdGl, rdFrame, rdShadowEnabled, rdFragment>>
    /\ UNCHANGED <<glsl, smVars, pcfVars, brdfVars, lightVars, areaVars, colorVars, appVars, dmVars, loopVars, cameraVars, paramVars, pickVars, rotateVars>>

hasShadowDraw(draws) == \E i \in 1 .. Len(draws) : draws[i].program = "shadow"

\* a call of Renderer.render; main.js passes a light sphere and a light
\* program, other callers need not
RenderCall ==
    /\ rdPage = "planar"
    /\ \E lightSphere \in BOOLEAN, lightProgram \in BOOLEAN :
        /\ rdFrame' = [drawn |-> TRUE, state |-> rdState,
                       lightSphere |-> lightSphere, lightProgram |-> lightProgram,
                       draws |-> render(rdGl, rdState, lightSphere, lightProgram).draws,
                       shadowBefore |-> hasShadowDraw(rdFrame.draws)]
        /\ rdGl' = render(rdGl, rdState, lightSphere, lightProgram).gl
    /\ UNCHANGED <<rdPage, rdState, rdShadowEnabled, rdFragment>>
    /\ UNCHANGED <<glsl, smVars, pcfVars, brdfVars, lightVars, areaVars, colorVars, appVars, dmVars, loopVars, cameraVars, paramVars, pickVars, rotateVars>>

\* change event of the shadow checkbox of the depth-map application
RenderDepthShadowChange ==
    /\ rdPage = "depthMap"
    /\ \E checked \in BOOLEAN : rdShadowEnabled' = checked
    /\ UNCHANGED <<rdPage, rdState, rdGl, rdFrame, rdFragment>>
    /\ UNCHANGED <<glsl, smVars, pcfVars, brdfVars, lightVars, areaVars, colorVars, appVars, dmVars, loopVars, cameraVars, paramVars, pickVars, rotateVars>>

\* a fragment of the main pass of the depth-map application
RenderDepthFragment ==
    /\ rdPage = "depthMap"
    /\ \E clip \in RenderClips, tex \in RenderTextures :
        rdFragment' =
            [done |-> TRUE, shadowEnabled |-> rdShadowEnabled,
             uShadowEnabled |-> uShadowEnabledOf(rdShadowEnabled),
             clip |-> clip, tex |-> tex,
             shadow |-> calculateShadow(uShadowEnabledOf(rdShadowEnabled), ShadowBias, tex,
                            <<FromRatio(clip[1], 2), FromRatio(clip[2], 2),
                              FromRatio(clip[3], 2), One>>,
                            ShadowNormal, ShadowNormal)]
    /\ UNCHANGED <<rdPage, rdState, rdGl, rdFrame, rdShadowEnabled>>
    /\ UNCHANGED <<glsl, smVars, pcfVars, brdfVars, lightVars, areaVars, colorVars, appVars, dmVars, loopVars, cameraVars, paramVars, pickVars, rotateVars>>

(***************************************************************************)
(* Rotation of the object of the depth-map application: animate, the       *)
(* autoRotate checkbox and the mouse handlers of initMouseControls         *)
(***************************************************************************)
\* callbacks and handlers a run is followed for
MaxRotateEvents == 4
\* milliseconds between two animation frames
FrameIntervals == {16, 1000}
\* clientX, clientY of the mouse events
DragPositions == {<<0, 0>>, <<100, 50>>}

AutoRotateSpeed == Half
DragSpeed == FromRatio(1, 100)

\* mutant: animate rotates whatever the checkbox says
animate_rotationYAlways(autoRotate, rotationY, deltaTime) ==
    FAdd(rotationY, FMul(deltaTime, AutoRotateSpeed))

\* if (this.params.autoRotate) this.rotationY += deltaTime * 0.5
animate_rotationY(autoRotate, rotationY, deltaTime) ==
    IF autoRotate THEN FAdd(rotationY, FMul(deltaTime, AutoRotateSpeed)) ELSE rotationY

\* animate(currentTime): the fields it writes
animate(app, currentTime) ==
    [app EXCEPT !.rotationY = animate_rotationY(app.autoRotate, @,
                                  FromRatio(currentTime - app.lastTime, 1000)),
                !.lastTime = currentTime]

\* the mousemove listener of initMouseControls
mousemoveDrag(app, pos) ==
    IF ~app.isDragging THEN app
    ELSE [app EXCEPT
            !.rotationY = FAdd(@, FMul(FromInt(pos[1] - app.lastMouseX), DragSpeed)),
            !.rotationX = FAdd(@, FMul(FromInt(pos[2] - app.lastMouseY), DragSpeed)),
            !.lastMouseX = pos[1],
            !.lastMouseY = pos[2]]

NoRotateEvent == [type |-> "none"]
ran(type) == [type |-> type, before |-> rotApp]

\* after the constructor, which ends with this.animate() at time 0
InitRotate ==
    /\ rotApp = [rotationX |-> Zero, rotationY |-> Zero, lastTime |-> 0,
                 autoRotate |-> TRUE, isDragging |-> FALSE,
                 lastMouseX |-> 0, lastMouseY |-> 0]
    /\ rotLast = NoRotateEvent
    /\ rotEvents = 0

\* an animation frame
RotateAnimate ==
    /\ rotEvents < MaxRotateEvents
    /\ \E dt \in FrameIntervals : rotApp' = animate(rotApp, rotApp.lastTime + dt)
    /\ rotLast' = ran("animate")
    /\ rotEvents' = rotEvents + 1
    /\ UNCHANGED <<glsl, smVars, pcfVars, brdfVars, lightVars, areaVars, colorVars, appVars, dmVars, loopVars, cameraVars, paramVars, pickVars, renderVars>>

\* the autoRotate checkbox, through onParamsChange
RotateAutoRotateChange ==
    /\ rotEvents < MaxRotateEvents
    /\ \E checked \in BOOLEAN : rotApp' = [rotApp EXCEPT !.autoRotate = checked]
    /\ rotLast' = ran("change")
    /\ rotEvents' = rotEvents + 1
    /\ UNCHANGED <<glsl, smVars, pcfVars, brdfVars, lightVars, areaVars, colorVars, appVars, dmVars, loopVars, cameraVars, paramVars, pickVars, renderVars>>

RotateMouseDown ==
    /\ rotEvents < MaxRotateEvents
    /\ \E pos \in DragPositions :
        rotApp' = [rotApp EXCEPT !.isDragging = TRUE,
                                 !.lastMouseX = pos[1], !.lastMouseY = pos[2]]
    /\ rotLast' = ran("mousedown")
    /\ rotEvents' = rotEvents + 1
    /\ UNCHANGED <<glsl, smVars, pcfVars, brdfVars, lightVars, areaVars, colorVars, appVars, dmVars, loopVars, cameraVars, paramVars, pickVars, renderVars>>

RotateMouseUp ==
    /\ rotEvents < MaxRotateEvents
    /\ rotApp' = [rotApp EXCEPT !.isDragging = FALSE]
    /\ rotLast' = ran("mouseup")
    /\ rotEvents' = rotEvents + 1
    /\ UNCHANGED <<glsl, smVars, pcfVars, brdfVars, lightVars, areaVars, colorVars, appVars, dmVars, loopVars, cameraVars, paramVars, pickVars, renderVars>>

RotateMouseLeave ==
    /\ rotEvents < MaxRotateEvents
    /\ rotApp' = [rotApp EXCEPT !.isDragging = FALSE]
    /\ rotLast' = ran("mouseleave")
    /\ rotEvents' = rotEvents + 1
    /\ UNCHANGED <<glsl, smVars, pcfVars, brdfVars, lightVars, areaVars, colorVars, appVars, dmVars, loopVars, cameraVars, paramVars, pickVars, renderVars>>

RotateMouseMove ==
    /\ rotEvents < MaxRotateEvents
    /\ \E pos \in DragPositions : rotApp' = mousemoveDrag(rotApp, pos)
    /\ rotLast' = ran("mousemove")
    /\ rotEvents' = rotEvents + 1
    /\ UNCHANGED <<glsl, smVars, pcfVars, brdfVars, lightVars, areaVars, colorVars, appVars, dmVars, loopVars, cameraVars, paramVars, pickVars, renderVars>>

(***************************************************************************)
(* Specifications                                                          *)
(***************************************************************************)
\* the state after construction, on an implementation where min, max and
\* normalize are defined for every argument the computation meets
Init ==
    /\ glsl = AnyImplementation
    /\ InitShadowMatrix
    /\ InitPcf
    /\ InitBrdf
    /\ InitLight
    /\ InitArea
    /\ InitColor
    /\ InitApp
    /\ InitDepthApp
    /\ InitLoop
    /\ InitCamera
    /\ InitParams
    /\ InitPick
    /\ InitRender
    /\ InitRotate

\* the state after construction, on any conforming implementation
InitShading ==
    /\ glsl \in Implementations
    /\ InitShadowMatrix
    /\ InitPcf
    /\ InitBrdf
    /\ InitLight
    /\ InitArea
    /\ InitColor
    /\ InitApp
    /\ InitDepthApp
    /\ InitLoop
    /\ InitCamera
    /\ InitParams
    /\ InitPick
    /\ InitRender
    /\ InitRotate

NextShadowMatrix == BuildShadowMatrix \/ ShadowVertex
SpecShadowMatrix == Init /\ [][NextShadowMatrix]_vars

NextPcf == SetShadowEnabled \/ RenderShadowMap \/ ShadeShadow \/ EndFrame
SpecPcf == Init /\ [][NextPcf]_vars

NextBrdf == ShadeBrdf \/ EndBrdfFrame
SpecBrdf == InitShading /\ [][NextBrdf]_vars

NextLight == SetLight \/ ShadeLight \/ EndLightFrame
SpecLight == InitShading /\ [][NextLight]_vars

NextArea == SetAreaLight \/ ShadeArea \/ EndAreaFrame
SpecArea == Init /\ [][NextArea]_vars

NextColor == SetColorInput \/ ShadeColor \/ EndColorFrame
SpecColor == InitShading /\ [][NextColor]_vars

NextApp ==
    \/ ScriptRequestFrame
    \/ ScriptEnableDebug
    \/ RenderFrame
    \/ OnLightYInput
    \/ OnLightTypeChange
    \/ OnShadowEnabledChange
    \/ OnMouseMove
    \/ OnMouseLeave
SpecApp == Init /\ [][NextApp]_vars

NextDepthApp ==
    \/ AnimateBegin
    \/ ShadowMapBegin
    \/ ShadowMapDraw
    \/ ShadowMapEnd
    \/ RenderMain
    \/ AnimateEnd
    \/ OnParamsChange
    \/ OnMouseDrag
SpecDepthApp == Init /\ [][NextDepthApp]_vars

NextLoop ==
    \/ MainGetContext
    \/ MainCreateProgram
    \/ MainStart
    \/ MainRender
    \/ CtGetContext
    \/ CtCreateProgram
    \/ CtCreatePreviewProgram
    \/ CtCreateShadowProgram
    \/ CtStart
    \/ CtAnimate
SpecLoop == Init /\ [][NextLoop]_vars

NextCamera ==
    \/ CameraMouseDown
    \/ CameraMouseUp
    \/ CameraMouseLeave
    \/ CameraMouseMove
    \/ CameraWheel
SpecCamera == Init /\ [][NextCamera]_vars

NextParams ==
    \/ ParamsSliderInput
    \/ ParamsCheckboxChange
SpecParams == Init /\ [][NextParams]_vars

NextPick ==
    \/ PickObjectTypeChange
    \/ PickMouseMove
    \/ PickMouseLeave
    \/ PickRender
SpecPick == Init /\ [][NextPick]_vars

NextRender ==
    \/ RenderOpenPage
    \/ RenderShadowChange
    \/ RenderLightTypeChange
    \/ RenderCall
    \/ RenderDepthShadowChange
    \/ RenderDepthFragment
SpecRender == Init /\ [][NextRender]_vars

NextRotate ==
    \/ RotateAnimate
    \/ RotateAutoRotateChange
    \/ RotateMouseDown
    \/ RotateMouseUp
    \/ RotateMouseLeave
    \/ RotateMouseMove
SpecRotate == Init /\ [][NextRotate]_vars

(***************************************************************************)
(* Properties of the BRDF and of the light model                           *)
(***************************************************************************)
FiniteNonNegative(x) == IsFinite(x) /\ x[1] >= 0
V3FiniteNonNegative(v) == \A i \in 1..3 : FiniteNonNegative(v[i])
Black == <<Zero, Zero, Zero>>

\* C7: for unit vectors N, V, L with N.L <= 0 the direct BRDF contribution
\* is exactly 0 in every colour channel, in evaluateBRDF of the
\* planar-shadow shader and in the Lo term of the depth-map shader.
C7_ZeroWhenBackFacing ==
    (brdfDone /\ FLe(FDot3(brdfIn.N, brdfIn.L), Zero))
        => (brdfPlanar = Black /\ brdfDepthMap = Black)

\* C8: for unit vectors N, V, L (L = -V included), roughness, metallic and
\* albedo in [0,1] (roughness 0 included) and a positive light intensity,
\* every component of the BRDF output of both shaders is finite and >= 0.
C8_FiniteNonNegative ==
    brdfDone => (V3FiniteNonNegative(brdfPlanar) /\ V3FiniteNonNegative(brdfDepthMap))

\* the squared distance between the light and the fragment, in 64ths
DistSq64 ==
    (lightIn.pos[1] - lightFrag[1]) * (lightIn.pos[1] - lightFrag[1])
        + (lightIn.pos[2] - lightFrag[2]) * (lightIn.pos[2] - lightFrag[2])
        + (lightIn.pos[3] - lightFrag[3]) * (lightIn.pos[3] - lightFrag[3])
\* a few units in the last place
Tolerance == FromRatio(1, 2 ^ (MantBits - 3))
\* the floor the planar-shadow shader applies, as a squared distance
EpsSq == FMul(Eps3, Eps3)
InverseSquare(a) ==
    /\ DistSq64 = 64 => a = One
    /\ DistSq64 = 256 => a = FromRatio(1, 4)
    /\ DistSq64 = 0 => (IsFinite(a) /\ FLe(a, FDiv(One, EpsSq)))
    /\ DistSq64 > 0 =>
         FLe(FAbs(FSub(FMul(a, FromRatio(DistSq64, 64)), One)), Tolerance)

\* C9: the attenuation of a point light at distance d is 1 / max(eps, d^2):
\* 1 at d = 1, 0.25 at d = 2, finite and at most 1/eps at d = 0, in
\* computeLighting and in calculateLight.
C9_PointAttenuation ==
    (lightDone /\ lightIn.lightType = 0)
        => (InverseSquare(lightPlanar.attenuation)
            /\ InverseSquare(lightDepthMap.attenuation))

\* the cutoffs of the cone whose half angle is half of spotAngle
InnerCutoff == FCos(FMul(lightIn.spotAngle, Half))
OuterCutoff == FCos(FAdd(FMul(lightIn.spotAngle, Half), lightIn.spotSoftness))
ConeFactor(light) ==
    /\ FLt(light.cosTheta, OuterCutoff) => light.cone = Zero
    /\ FGt(light.cosTheta, InnerCutoff) => light.cone = One
SpotLit == lightDone /\ lightIn.lightType = 2 /\ DistSq64 > 0
\* of two fragments of a frame, the one with the larger cosTheta has the
\* larger cone factor, or the same
ConeMonotone(light, next) ==
    /\ FLe(light.cosTheta, next.cosTheta) => FLe(light.cone, next.cone)
    /\ FLe(next.cosTheta, light.cosTheta) => FLe(next.cone, light.cone)

\* C10: the cone factor of a spot light is 0 outside the outer cutoff
\* cos(halfAngle + softness), 1 strictly inside the inner cutoff
\* cos(halfAngle) and non-decreasing in cosTheta between them, and
\* spotAttenuation and calculateLight give the same factor for the same
\* spotAngle and softness.
C10_SpotCone ==
    /\ [](SpotLit => /\ ConeFactor(lightPlanar)
                     /\ ConeFactor(lightDepthMap)
                     /\ lightPlanar.cone = lightDepthMap.cone)
    /\ [][(SpotLit /\ SpotLit') =>
            /\ ConeMonotone(lightPlanar, lightPlanar')
            /\ ConeMonotone(lightDepthMap, lightDepthMap')]_vars

\* two values that differ by no more than the rounding of the 64 additions
\* of the sampling loop
CloseTo(a, b) ==
    /\ IsFinite(a)
    /\ IsFinite(b)
    /\ FLe(FAbs(FSub(a, b)), FAdd(FMul(FAbs(b), FromRatio(1, 16)), Eps4))
V3CloseTo(u, v) == \A i \in 1..3 : CloseTo(u[i], v[i])
ZeroSizeLit == areaDone /\ areaIn.areaSize = <<Zero, Zero>>

\* C11: an area light whose rectangle has size (0,0) lights every fragment
\* as a point light with the same position, colour and intensity does
\* (attenuation 1/d^2 after the division by the sample count), for every
\* emission direction, in both shaders.
C11_AreaZeroSize ==
    ZeroSizeLit =>
        /\ V3CloseTo(areaPlanar.area, areaPlanar.point)
        /\ CloseTo(areaDepthMap.area.attenuation, areaDepthMap.point.attenuation)

\* C12: the alpha the GGX distribution function works with is at least
\* 0.001 for every roughness in [0,1], roughness 0 included, in both
\* shaders.
C12_AlphaFloor ==
    brdfDone => (FGe(brdfTerms.planar.alpha, Eps3) /\ FGe(brdfTerms.depthMap.alpha, Eps3))

\* k = (roughness + 1)^2 / 8 of the material roughness itself
DirectLightingK == FDiv(FSquare(FAdd(brdfIn.roughness, One)), FromInt(8))

\* C13: the Smith geometry term is G1(N.V) * G1(N.L) with
\* G1(x) = x / (x * (1 - k) + k) and k = (roughness + 1)^2 / 8 of the
\* material roughness itself, not of its square; both shaders compute k from
\* the same quantity and therefore the same G.
C13_SmithGeometry ==
    brdfDone =>
        /\ brdfTerms.planar.k = DirectLightingK
        /\ brdfTerms.depthMap.k = DirectLightingK
        /\ brdfTerms.planar.G = brdfTerms.depthMap.G

\* V.H of the fragment is a number in [0,1] in both shaders
VdotHInRange ==
    /\ brdfDone
    /\ FGe(brdfTerms.planar.VdotH, Zero) /\ FLe(brdfTerms.planar.VdotH, One)
    /\ FGe(brdfTerms.depthMap.VdotH, Zero) /\ FLe(brdfTerms.depthMap.VdotH, One)
Within(a, b) == IsFinite(a) /\ IsFinite(b) /\ FLe(FAbs(FSub(a, b)), Tolerance)
\* kD + kS of a shader is the given function of kS, in every channel
EnergySum(terms, expected(_)) ==
    \A i \in 1..3 : Within(FAdd(terms.kD[i], terms.kS[i]), expected(terms.kS[i]))
Unity(F) == One
\* 1 - metallic * (1 - F)
LessMetalDiffuse(F) == FSub(One, FMul(brdfIn.metallic, FSub(One, F)))

UnshadowedLo ==
    CookTorranceLo(ColorUniforms(colorIn.material, colorIn.shadowEnabled, colorFrag.L),
                   colorFrag.N, colorFrag.V,
                   FNormalize(colorFrag.L), One, One)

\* C15: the shadow factor scales only the direct term: in the depth-map
\* shader the colour before tone mapping is ambient + Lo * shadow, so a
\* shadow factor of 0 leaves exactly the ambient term, and the
\* planar-shadow shader applies no shadow multiplier (uShadowBlend is 0 in
\* every frame), whether shadows are enabled or not.
C15_ShadowScalesDirectOnly ==
    colorDone =>
        /\ colorDepthMap.color =
             V3Add(colorDepthMap.ambient, V3Scale(UnshadowedLo, colorDepthMap.shadow))
        /\ colorDepthMap.shadow = Zero => colorDepthMap.color = colorDepthMap.ambient
        /\ colorPlanar.shadowBlend = Zero
        /\ colorPlanar.color = colorPlanar.lit

(***************************************************************************)
(* Claims about the planar-shadow application                              *)
(***************************************************************************)
\* the frame called buildShadowMatrix and |dot| < 0.001
Degenerate(frame) == frame.shadow.called /\ FLt(FAbs(frame.shadow.dot), Eps3)

\* C16: every call of buildShadowMatrix whose plane-light dot product is
\* below 0.001 in magnitude logs the shadow warning, in every frame the
\* application renders, the first one included
C16_DegenerateWarned ==
    Degenerate(appFrame) => appFrame.shadow.warned

\* the first frame after the script, drawn with the light on the shadow plane
C16_Witness ==
    appFrame.first /\ Degenerate(appFrame) /\ appFrame.shadow.warned

\* -dir / |dir|
NegatedNormalized(dir) == V3Neg(V3DivS(dir, FLength(dir)))

\* C17: the light 4-vector handed to buildShadowMatrix has w = 0 exactly
\* when state.lightType is 1, and then its xyz is the negated, normalized
\* state.lightDir; for every other light type it is state.lightPos with w = 1
C17_LightHomogeneous ==
    appFrame.shadow.called =>
        /\ (appFrame.shadow.lightHomogeneous[4] = Zero) <=> (appFrame.state.lightType = 1)
        /\ appFrame.state.lightType = 1 =>
              appFrame.shadow.lightHomogeneous
                  = NegatedNormalized(appFrame.state.lightDir) \o <<Zero>>
        /\ appFrame.state.lightType # 1 =>
              appFrame.shadow.lightHomogeneous = appFrame.state.lightPos \o <<One>>

\* a shadow pass under the directional light
C17_Witness ==
    /\ appFrame.shadow.called
    /\ appFrame.state.lightType = 1
    /\ appFrame.shadow.lightHomogeneous[4] = Zero

\* the debug vectors the mousemove handler derives from a light state
CurrentVectors(state, point) == hoverHit(state, point).vectors

\* C20: whatever a frame draws from the light state (the light uniforms, the
\* light 4-vector of the planar shadow matrix, and the L and H debug vectors
\* of a hovered point) is derived from the light state current at that frame
C20_FrameFromCurrentState ==
    appFrame # NoFrame =>
        /\ appFrame.uLightType = appFrame.state.lightType
        /\ appFrame.uLightPos = appFrame.state.lightPos
        /\ appFrame.uLightDir = vec3_normalize(appFrame.state.lightDir)
        /\ appFrame.shadow.called =>
              appFrame.shadow.lightHomogeneous = RenderLightHomogeneous(appFrame.state)
        /\ appFrame.debugVectors # NoHover =>
              /\ appFrame.debugVectors.vectors.L
                    = CurrentVectors(appFrame.state, appFrame.debugVectors.point).L
              /\ appFrame.debugVectors.vectors.H
                    = CurrentVectors(appFrame.state, appFrame.debugVectors.point).H

(***************************************************************************)
(* Claims about the depth-map application                                  *)
(***************************************************************************)
\* world points carried through the light-space matrix and back
WorldPoints == {<<Zero, Zero, Zero, One>>, <<One, Half, FNeg(One), One>>,
                <<FNeg(One), FNeg(One), Half, One>>}

RoundTripTolerance == FromRatio(1, 64)
PointCloseTo(p, q) ==
    \A i \in 1..4 : IsFinite(p[i]) /\ FLe(FAbs(FSub(p[i], q[i])), RoundTripTolerance)

RoundTrip(mat, inverse) ==
    /\ inverse # Null
    /\ \A p \in WorldPoints :
          \A q \in {transformPoint(mat, p)} : PointCloseTo(transformPoint(inverse, q), p)

\* a main pass drawn with the light off the origin
OffOriginFrame == dmMain.drawn /\ dmMain.lightPosition # <<Zero, Zero, Zero>>

\* C18: for every light position of the sliders other than the origin, the
\* light-space matrix of the frame is invertible, and a world point carried
\* through it and then through invertMatrix of it comes back to itself
C18_LightSpaceRoundTrip ==
    OffOriginFrame =>
        RoundTrip(dmMain.lightSpaceMatrix, invertMatrix(dmMain.lightSpaceMatrix))

\* C19: the shadow framebuffer is bound only while renderShadowMap runs; when
\* the main pass draws, the depth pass of the frame is complete and the
\* default framebuffer is bound, and no draw call writes the depth texture
\* while it samples it
C19_DepthPassThenMainPass ==
    /\ dmFramebuffer = "shadow" => dmPc \in {"depth", "depthDrawn"}
    /\ dmPc \in {"depth", "depthDrawn"} => dmFramebuffer = "shadow"
    /\ dmPc = "main" =>
          /\ dmFramebuffer = "default"
          /\ dmReady => dmShadow.drawn
    /\ dmAccess # {"write", "sample"}

\* a main pass sampling the depth texture the depth pass of the same frame wrote
C19_Witness ==
    /\ dmPc = "main"
    /\ dmShadow.drawn
    /\ dmFramebuffer = "default"
    /\ dmAccess = {"sample"}

(***************************************************************************)
(* Start-up and frame loop                                                 *)
(***************************************************************************)
\* a call of a builder released what it created: no shader object is left,
\* and a program object is left only if the builder produced a program
buildReleased(build) ==
    /\ build.after.shaders = build.before.shaders
    /\ build.after.programs = build.before.programs + (IF build.program THEN 1 ELSE 0)

\* C30: after every call of createShaderProgram and of createProgram, failed
\* or not, every shader object the call created is deleted, and the program
\* object it created is deleted unless it linked
C30_BuildersRelease ==
    lastBuild.builder # "none" => buildReleased(lastBuild)

\* C29: the depth-map application schedules or draws a frame only with a
\* context and a main program, and after an early return of its constructor
\* it has neither scheduled nor drawn one; without a shadow program the
\* constructor still draws the first frame and no frame binds the shadow
\* framebuffer or draws the depth pass; main.js without a WebGL2 context has
\* created no program and no shader and has scheduled and drawn no frame
C29_LoopStartedOnlyWhenBuilt ==
    /\ (ctApp.pending > 0 \/ ctApp.frames > 0) => (ctApp.context /\ ctApp.program)
    /\ (ctApp.pc \notin {"context", "program"} /\ ~(ctApp.context /\ ctApp.program)) =>
            /\ ctApp.pc = "returned"
            /\ ctApp.pending = 0
            /\ ctApp.frames = 0
            /\ ctApp.lastFrame = NoAnimateFrame
    /\ (ctApp.pc \in {"init", "running"} /\ ~ctApp.shadowProgram) =>
            /\ ctApp.pc = "running" => ctApp.frames >= 1
            /\ ~ctApp.lastFrame.shadowBound
            /\ ~ctApp.lastFrame.shadowDrawn
    /\ (mjApp.pc # "context" /\ ~mjApp.context) =>
            /\ mjApp.pc = "failed"
            /\ mjApp.built = 0
            /\ mjApp.gl = NoObjects
            /\ mjApp.pending = 0
            /\ mjApp.frames = 0

C29_Witness ==
    /\ ctApp.pc = "running"
    /\ ~ctApp.shadowProgram
    /\ ctApp.frames >= 2
    /\ ctApp.pending = 1
    /\ mjApp.pc = "failed"
    /\ ~mjApp.context

\* the constructor returned early for want of a main program
C29_WitnessReturned ==
    /\ ctApp.pc = "returned"
    /\ ctApp.context
    /\ ~ctApp.program

\* C21: once an application runs its frame loop, exactly one frame callback
\* is pending after every frame callback, whether the frame completed or
\* threw: the loop never stops and never has two callbacks pending
C21_OneCallbackPending ==
    /\ mjApp.pc = "running" => mjApp.pending = 1
    /\ ctApp.pc = "running" => ctApp.pending = 1

(***************************************************************************)
(* Camera                                                                  *)
(***************************************************************************)
\* C27: after any sequence of canvas events the pitch is within
\* [-1.2, 1.2] and the distance within [1.2, 12]; a mousemove handled with
\* neither isRotating nor isPanning set changed only lastMousePos, and a
\* wheel event changed only distance
C27_CameraLimits ==
    /\ FLe(PitchMin, camera.pitch) /\ FLe(camera.pitch, PitchMax)
    /\ FLe(DistanceMin, camera.distance) /\ FLe(camera.distance, DistanceMax)
    /\ (/\ cameraEvent.type = "mousemove"
        /\ ~cameraEvent.before.isRotating
        /\ ~cameraEvent.before.isPanning) =>
            camera = [cameraEvent.before EXCEPT !.lastMousePos = camera.lastMousePos]
    /\ cameraEvent.type = "wheel" =>
            camera = [cameraEvent.before EXCEPT !.distance = camera.distance]

\* a rotation was clamped at the upper pitch limit after a zoom was clamped
\* at the far limit
C27_Witness ==
    /\ cameraEvent.type = "mousemove"
    /\ cameraEvent.before.isRotating
    /\ camera.pitch = PitchMax
    /\ cameraEvent.before.pitch # PitchMax
    /\ camera.distance = DistanceMax

\* a mousemove with no button held moved the pointer
C27_WitnessIdle ==
    /\ cameraEvent.type = "mousemove"
    /\ ~cameraEvent.before.isRotating
    /\ ~cameraEvent.before.isPanning
    /\ camera.lastMousePos # cameraEvent.before.lastMousePos

\* a wheel event zoomed in to the near limit
C27_WitnessWheel ==
    /\ cameraEvent.type = "wheel"
    /\ camera.distance = DistanceMin
    /\ cameraEvent.before.distance # DistanceMin

(***************************************************************************)
(* Controls of the depth-map application                                   *)
(***************************************************************************)
\* C28: after every onParamsChange the stored spotAngle, spotSoftness and
\* both components of areaSize are not zero: where the control holds 0 or
\* NaN the stored value is the default 0.5, 0.1 or 1.0, and the value of the
\* control otherwise
C28_StoredNeverZero ==
    /\ ctParams.spotAngle # Zero
    /\ ctParams.spotSoftness # Zero
    /\ ctParams.areaSize[1] # Zero
    /\ ctParams.areaSize[2] # Zero
    /\ ctParams.spotAngle =
         IF uiParams.spotAngle = Zero \/ IsNaN(uiParams.spotAngle)
         THEN FromRatio(5, 10) ELSE uiParams.spotAngle
    /\ ctParams.spotSoftness =
         IF uiParams.spotSoftness = Zero \/ IsNaN(uiParams.spotSoftness)
         THEN FromRatio(1, 10) ELSE uiParams.spotSoftness
    /\ ctParams.areaSize[1] =
         IF uiParams.areaWidth = Zero \/ IsNaN(uiParams.areaWidth)
         THEN One ELSE uiParams.areaWidth
    /\ ctParams.areaSize[2] =
         IF uiParams.areaHeight = Zero \/ IsNaN(uiParams.areaHeight)
         THEN One ELSE uiParams.areaHeight

\* the spot softness control holds 0, the area width control holds NaN and
\* the spot angle control holds 0.25
C28_Witness ==
    /\ uiParams.spotSoftness = Zero
    /\ IsNaN(uiParams.areaWidth)
    /\ uiParams.spotAngle = FromRatio(1, 4)
    /\ ctParams.spotSoftness = FromRatio(1, 10)
    /\ ctParams.areaSize[1] = One

(***************************************************************************)
(* Mouse picking                                                           *)
(***************************************************************************)
\* C26: after any sequence of object type changes the active object is the
\* sphere exactly when the object type is 'sphere' and the cube for every
\* other value, a mousemove tested the sphere exactly when the object type
\* was 'sphere' and the cube for every other value, and a frame drew the
\* object of the object type it was drawn for
C26_PickedShapeIsRenderedShape ==
    /\ pickActiveObject = IF pickObjectType = "sphere" THEN "geoSphere" ELSE "geoCube"
    /\ pickLast.event = "mousemove" =>
         pickLast.hit = IF pickLast.objectType = "sphere"
                        THEN intersectSphere(PickOrigin, pickLast.rayDir, ObjectCenter, ObjectSize)
                        ELSE intersectCube(PickOrigin, pickLast.rayDir, ObjectCenter, ObjectSize)
    /\ pickFrame.drawn =>
         pickFrame.object = IF pickFrame.objectType = "sphere" THEN "geoSphere" ELSE "geoCube"

\* the object type is neither 'sphere' nor 'cube', the cube is drawn, and
\* the mouse is on a corner of the cube that the sphere does not cover
C26_Witness ==
    /\ pickObjectType = "torus"
    /\ pickFrame.drawn
    /\ pickFrame.object = "geoCube"
    /\ pickFrame.objectType = "torus"
    /\ pickLast.event = "mousemove"
    /\ pickLast.objectType = "torus"
    /\ pickLast.hit # null
    /\ intersectSphere(PickOrigin, pickLast.rayDir, ObjectCenter, ObjectSize) = null

\* C25: after every mousemove and mouseleave handler hoverInfo is not null
\* exactly when the tooltip is displayed, which is exactly when the last of
\* these events was a mousemove whose ray hit the object; a frame drew the
\* debug vectors exactly when hoverInfo was not null at that frame
C25_HoverInfoIffTooltip ==
    /\ pickLast.event \in {"mousemove", "mouseleave"} =>
         /\ (pickHoverInfo # null) <=> (pickTooltip = "block")
         /\ (pickHoverInfo # null) <=> (pickLast.event = "mousemove" /\ pickLast.hit # null)
         /\ pickTooltip \in {"block", "none"}
    /\ pickFrame.drawn => (pickFrame.debugVectors <=> (pickFrame.hoverInfo # null))

\* the mouse rests on the object, the tooltip is displayed and the frame
\* drew the debug vectors
C25_Witness ==
    /\ pickLast.event = "mousemove"
    /\ pickHoverInfo # null
    /\ pickTooltip = "block"
    /\ pickFrame.drawn
    /\ pickFrame.debugVectors

\* the mouse moved off the object after a hit, and the next frame drew no
\* debug vectors
C25_WitnessMiss ==
    /\ pickLast.event = "mousemove"
    /\ pickLast.hit = null
    /\ pickTooltip = "none"
    /\ pickFrame.drawn
    /\ ~pickFrame.debugVectors

(***************************************************************************)
(* Draw calls and the shadow option                                        *)
(***************************************************************************)
\* the draw calls the frame should consist of, as <<program, vertex array>>
ExpectedDraws(frame) ==
    <<(<<"main", "floor">>)>>
    \o (IF frame.state.shadowEnabled THEN <<(<<"shadow", "object">>)>> ELSE <<>>)
    \o <<(<<"main", "object">>)>>
    \o (IF frame.state.lightType # 1 /\ frame.lightSphere /\ frame.lightProgram
        THEN <<(<<"light", "lightSphere">>)>> ELSE <<>>)

\* C24: a call of Renderer.render draws the floor, the planar shadow if
\* state.shadowEnabled, the object, and the light indicator if the light type
\* is not 1 and there are a light sphere and a light program, in this order;
\* the shadow draw runs with blending and polygon offset enabled, every
\* other draw with both disabled, and both are disabled when render returns
C24_DrawOrderAndCapabilities ==
    /\ rdFrame.drawn =>
        /\ [i \in 1 .. Len(rdFrame.draws) |->
               <<rdFrame.draws[i].program, rdFrame.draws[i].vao>>] = ExpectedDraws(rdFrame)
        /\ \A i \in 1 .. Len(rdFrame.draws) :
            /\ rdFrame.draws[i].BLEND <=> rdFrame.draws[i].program = "shadow"
            /\ rdFrame.draws[i].POLYGON_OFFSET_FILL <=> rdFrame.draws[i].program = "shadow"
    /\ ~rdGl.BLEND
    /\ ~rdGl.POLYGON_OFFSET_FILL

\* a frame of all four draws
C24_Witness ==
    /\ rdFrame.drawn
    /\ Len(rdFrame.draws) = 4
    /\ rdFrame.draws[2].program = "shadow"
    /\ rdFrame.draws[2].BLEND
    /\ rdFrame.draws[4].program = "light"

\* a frame of the floor and the object only
C24_WitnessTwoDraws ==
    /\ rdFrame.drawn
    /\ Len(rdFrame.draws) = 2
    /\ rdFrame.state.lightType = 1

\* C22: a frame rendered while the shadow option is disabled has no draw
\* call with the shadow program, and a frame rendered while it is enabled
\* has one, whatever the frame before was; a fragment shaded by the depth-map
\* application while its shadow option is disabled has uShadowEnabled 0 and
\* the shadow factor 1.0, and one shaded while it is enabled has
\* uShadowEnabled 1
C22_NoShadowWhileDisabled ==
    /\ rdFrame.drawn => (hasShadowDraw(rdFrame.draws) <=> rdFrame.state.shadowEnabled)
    /\ rdFragment.done =>
        /\ rdFragment.uShadowEnabled = (IF rdFragment.shadowEnabled THEN 1 ELSE 0)
        /\ ~rdFragment.shadowEnabled => rdFragment.shadow = One

\* the option is disabled and the frame has no shadow draw after a frame
\* that had one
C22_Witness ==
    /\ rdFrame.drawn
    /\ ~rdFrame.state.shadowEnabled
    /\ rdFrame.shadowBefore
    /\ ~hasShadowDraw(rdFrame.draws)

\* the option was enabled again and the frame has the shadow draw
C22_WitnessEnabledAgain ==
    /\ rdFrame.drawn
    /\ rdFrame.state.shadowEnabled
    /\ ~rdFrame.shadowBefore
    /\ hasShadowDraw(rdFrame.draws)

\* a fragment behind the occluder is lit while the option is disabled
C22_WitnessFragment ==
    /\ rdFragment.done
    /\ ~rdFragment.shadowEnabled
    /\ rdFragment.shadow = One
    /\ calculateShadow(1, ShadowBias, rdFragment.tex,
                       <<FromRatio(rdFragment.clip[1], 2), FromRatio(rdFragment.clip[2], 2),
                         FromRatio(rdFragment.clip[3], 2), One>>,
                       ShadowNormal, ShadowNormal) # One

\* and in shadow once the option is enabled
C22_WitnessFragmentShadowed ==
    /\ rdFragment.done
    /\ rdFragment.shadowEnabled
    /\ FLt(rdFragment.shadow, One)

(***************************************************************************)
(* Rotation of the object                                                  *)
(***************************************************************************)
rotationOf(app) == <<app.rotationX, app.rotationY>>

\* C23: an animation frame that runs while autoRotate is false leaves
\* rotationX and rotationY as they were (and no frame changes rotationX); a
\* step that changes the rotation is an animation frame with autoRotate or a
\* mousemove during a drag, and a drag is in progress from a mousedown to
\* the next mouseup or mouseleave
C23_RotationOnlyByDrag ==
    /\ rotLast.type = "animate" =>
        /\ rotApp.rotationX = rotLast.before.rotationX
        /\ ~rotLast.before.autoRotate => rotApp.rotationY = rotLast.before.rotationY
    /\ (rotLast.type # "none" /\ rotationOf(rotApp) # rotationOf(rotLast.before)) =>
        \/ rotLast.type = "animate" /\ rotLast.before.autoRotate
        \/ rotLast.type = "mousemove" /\ rotLast.before.isDragging
    /\ rotLast.type = "mousedown" => rotApp.isDragging
    /\ rotLast.type \in {"mouseup", "mouseleave"} => ~rotApp.isDragging
    /\ rotLast.type \in {"animate", "change", "mousemove"} =>
        rotApp.isDragging = rotLast.before.isDragging

\* a frame ran with autoRotate off after the object had been rotated
C23_Witness ==
    /\ rotLast.type = "animate"
    /\ ~rotLast.before.autoRotate
    /\ rotApp.rotationY # Zero
    /\ rotApp.lastTime > rotLast.before.lastTime

\* a drag rotated the object while autoRotate was off
C23_WitnessDrag ==
    /\ rotLast.type = "mousemove"
    /\ ~rotLast.before.autoRotate
    /\ rotLast.before.isDragging
    /\ rotApp.rotationX # rotLast.before.rotationX
    /\ rotApp.rotationY # rotLast.before.rotationY

\* a mousemove after the mouse button was released rotated nothing
C23_WitnessNoDrag ==
    /\ rotLast.type = "mousemove"
    /\ ~rotLast.before.isDragging
    /\ rotLast.before.lastMouseX = 100

====
